---- MODULE Spec2Model ----
(***************************************************************************)
(* A model of the usbh host stack (nilclass/usbh): the UsbHost of          *)
(* src/src/lib.rs with its enumeration (src/src/enumeration.rs),           *)
(* discovery (src/src/discovery.rs) and control transfer                   *)
(* (src/src/transfer.rs) state machines, the descriptor framing of         *)
(* src/src/descriptor.rs, and the HostBus contract of src/src/bus.rs as    *)
(* the environment.                                                        *)
(*                                                                         *)
(* Every method of the host is an operator from a host record `h` to the   *)
(* host record after the call.  The record holds the fields of UsbHost     *)
(* (state, active_transfer, last_address, pipes), the state of the bus     *)
(* behind the HostBus trait (bus), the bus calls (calls) and driver        *)
(* callbacks (cbs) made so far in the current operation, the value the     *)
(* operation returned (ret) and whether the program has panicked.          *)
(***************************************************************************)
EXTENDS Integers, Sequences, FiniteSets, TLC

(***************************************************************************)
(* Program constants and the bounds of the model.                          *)
(***************************************************************************)
MAX_PIPES == 32
\* driver.rs line 75: the device slots of a driver
MAX_DEVICES == 8
RESET_0_DELAY == 10
RESET_1_DELAY == 10
TYPE_DEVICE == 1
TYPE_CONFIGURATION == 2

\* number of drivers handed to poll
NumDrivers == 2
\* device addresses drivers use in their calls: 1..MaxAddr
MaxAddr == 2
\* pipe ids drivers use in their calls: 0..MaxPipeId
MaxPipeId == 1
\* interrupt pipes the bus can allocate: bus_ref in 1..MaxBusPipes
MaxBusPipes == 1
\* largest data length of a driver's control transfer
MaxLen == 1
\* the drivers create pipes on their own initiative (outside `configured`)
\* while at most MaxPipes slots are taken
MaxPipes == 1
\* longest buffer handed to the descriptor parser
MaxBuf == 4
\* resets of the host after which the application goes on with drivers that
\* hold a device (after one more it makes new drivers)
MaxKept == 1

Drivers == 1..NumDrivers
Addrs == 1..MaxAddr
PipeIds == 0..MaxPipeId
Speeds == {"Low", "Full"}
BusErrors == {"Crc", "BitStuffing", "RxOverflow", "RxTimeout", "DataSequence", "Other"}
\* the kinds of error the bus of the model raises (the host passes the kind on)
ErrorKinds == {"Crc", "RxTimeout"}

(***************************************************************************)
(* Option<T>: None is the empty sequence, Some(x) the sequence <<x>>.      *)
(***************************************************************************)
None == <<>>
Some(x) == <<x>>
IsSome(o) == o # <<>>
Unwrap(o) == o[1]
Opt(S) == {None} \cup {Some(x) : x \in S}

(***************************************************************************)
(* The values of the enums of the program.                                 *)
(***************************************************************************)
\* enumeration.rs: EnumerationState
WaitForDevice == [tag |-> "WaitForDevice"]
Reset0 == [tag |-> "Reset0"]
Delay0(n) == [tag |-> "Delay0", n |-> n]
WaitDescriptor == [tag |-> "WaitDescriptor"]
Reset1 == [tag |-> "Reset1"]
Delay1(speed, n) == [tag |-> "Delay1", speed |-> speed, n |-> n]
WaitSetAddress(speed, addr) == [tag |-> "WaitSetAddress", speed |-> speed, addr |-> addr]
Assigned(speed, addr) == [tag |-> "Assigned", speed |-> speed, addr |-> addr]

\* discovery.rs: DiscoveryState
DeviceDesc == [tag |-> "DeviceDesc"]
ConfigDescLen(n, m) == [tag |-> "ConfigDescLen", n |-> n, m |-> m]
ConfigDesc(n, m) == [tag |-> "ConfigDesc", n |-> n, m |-> m]
Done == [tag |-> "Done"]
ParseError == [tag |-> "ParseError"]

\* lib.rs: State
Enumeration(es) == [tag |-> "Enumeration", sub |-> es]
Discovery(addr, ds) == [tag |-> "Discovery", addr |-> addr, sub |-> ds]
Configuring(addr, config) == [tag |-> "Configuring", addr |-> addr, config |-> config]
Configured(addr, config) == [tag |-> "Configured", addr |-> addr, config |-> config]
Dormant(addr) == [tag |-> "Dormant", addr |-> addr]

\* lib.rs: Pipe
ControlPipe(dev_addr) == [kind |-> "Control", dev_addr |-> dev_addr]
InterruptPipe(dev_addr, bus_ref, direction, size, ptr) ==
    [kind |-> "Interrupt", dev_addr |-> dev_addr, bus_ref |-> bus_ref,
     direction |-> direction, size |-> size, ptr |-> ptr]

\* transfer.rs: Transfer { length, state: Control(direction, control_state) }
new_control_in(length) == [dir |-> "In", stage |-> "WaitSetup", length |-> length]
new_control_out(length) == [dir |-> "Out", stage |-> "WaitSetup", length |-> length]

\* lib.rs: Event (the internal event of poll)
EvNone == [tag |-> "None"]
EvAttached(speed) == [tag |-> "Attached", speed |-> speed]
EvDetached == [tag |-> "Detached"]
EvControlInData(pipe_id, length) == [tag |-> "ControlInData", pipe_id |-> pipe_id, length |-> length]
EvControlOutComplete(pipe_id) == [tag |-> "ControlOutComplete", pipe_id |-> pipe_id]
EvStall == [tag |-> "Stall"]
EvResume == [tag |-> "Resume"]
EvInterruptPipe(ref) == [tag |-> "InterruptPipe", ref |-> ref]
EvBusError(kind) == [tag |-> "BusError", kind |-> kind]
EvSof == [tag |-> "Sof"]

\* bus.rs: Event (what HostBus::poll returns; None when there is no event)
BusEvents ==
    {[tag |-> "NoEvent"], [tag |-> "Detached"], [tag |-> "TransComplete"],
     [tag |-> "Stall"], [tag |-> "Resume"], [tag |-> "Sof"]}
    \cup {[tag |-> "Attached", speed |-> s] : s \in Speeds}
    \cup {[tag |-> "Error", kind |-> k] : k \in BusErrors}
    \cup {[tag |-> "InterruptPipe", ref |-> r] : r \in 1..MaxBusPipes}

\* lib.rs: PollResult
NoDevice == [tag |-> "NoDevice"]
Busy == [tag |-> "Busy"]
Idle == [tag |-> "Idle"]
BusError(kind) == [tag |-> "BusError", kind |-> kind]
DiscoveryError(addr) == [tag |-> "DiscoveryError", addr |-> addr]

\* lib.rs: Result<(), ControlError>
Ok == [tag |-> "Ok"]
WouldBlock == [tag |-> "WouldBlock"]
InvalidPipe == [tag |-> "InvalidPipe"]

(***************************************************************************)
(* The bus behind the HostBus trait (bus.rs).  pending: a stage was        *)
(* written and its TransComplete (or Stall, or Error) is still to come;    *)
(* sof_on / sof_irq: SOF generation may be running (the bus raises Sof     *)
(* when it is and the interrupt is on, and is never forced to); present:   *)
(* the bus has reported a device; reattach: the bus was reset and will report *)
(* the device again; refs: the interrupt pipes the bus has allocated;      *)
(* owed: the stages written since the last Detached or reset_controller    *)
(* that no TransComplete has answered yet (counted up to 2).               *)
(***************************************************************************)
BusInit ==
    [pending |-> FALSE, sof_on |-> FALSE, sof_irq |-> FALSE,
     present |-> FALSE, reattach |-> FALSE, refs |-> {}, owed |-> 0]

\* the buffer the bus hands out for interrupt pipe bus_ref
BufPtr(bus_ref) == 64 * bus_ref

BusEffect(b, c) ==
    CASE c.op = "reset_controller" -> BusInit
      \* reset_bus may suspend SOF generation or leave it running (bus.rs lines
      \* 33-34): sof_on is left as it was, so a bus that raised Sof before the
      \* reset may go on raising it, and need not
      [] c.op = "reset_bus" -> [b EXCEPT !.pending = FALSE, !.reattach = TRUE]
      [] c.op = "enable_sof" -> [b EXCEPT !.sof_on = TRUE]
      [] c.op = "interrupt_on_sof" -> [b EXCEPT !.sof_irq = c.on]
      [] c.op \in {"write_setup", "write_data_in", "write_data_out", "write_data_out_prepared"} ->
            [b EXCEPT !.pending = TRUE, !.owed = IF @ < 2 THEN @ + 1 ELSE 2]
      [] c.op = "create_interrupt_pipe" -> [b EXCEPT !.refs = @ \cup {c.bus_ref}]
      [] c.op = "release_interrupt_pipe" -> [b EXCEPT !.refs = @ \ {c.bus_ref}]
      [] OTHER -> b

\* the host calls the bus: the call is recorded and the bus changes
BusCall(h, c) == [h EXCEPT !.calls = Append(@, c), !.bus = BusEffect(@, c)]

\* a driver callback is recorded, with the number of bus calls the operation
\* has made before it (seq)
Callback(h, c) ==
    [h EXCEPT !.cbs = Append(@, [x \in DOMAIN c \cup {"seq"} |->
                                    IF x = "seq" THEN Len(h.calls) ELSE c[x]])]

\* a panic (unwrap of None, panic!, arithmetic overflow): the program stops
Panic(h) == [h EXCEPT !.panicked = TRUE]

Ret(h, r) == [h EXCEPT !.ret = r]

(***************************************************************************)
(* types.rs: SetupPacket::new                                              *)
(***************************************************************************)
\* usb_device: UsbDirection::In = 0x80, Out = 0x00
DirectionByte(direction) == IF direction = "In" THEN 128 ELSE 0

\* a constructor that puts the request type one bit too low
SetupPacket_new_Shift4(direction, request_type, recipient, request, value, index, length) ==
    [request_type |-> recipient + request_type * 16 + DirectionByte(direction),
     request |-> request, value |-> value, index |-> index, length |-> length]

SetupPacket_new(direction, request_type, recipient, request, value, index, length) ==
    [request_type |-> recipient + request_type * 32 + DirectionByte(direction),
     request |-> request, value |-> value, index |-> index, length |-> length]

\* usb_device::control::Request
GET_DESCRIPTOR == 6
SET_ADDRESS == 5
SET_CONFIGURATION == 9
\* usb_device::control::{RequestType::Standard, Recipient::Device}
Standard == 0
Device == 0

(***************************************************************************)
(* lib.rs: the pipe table and the control transfer entry points            *)
(***************************************************************************)
EmptyPipes == [i \in 0..(MAX_PIPES - 1) |-> None]

\* a validation that accepts any occupied control slot, whatever its address
validate_control_pipe_AnyAddr(h, dev_addr, pipe_id) ==
    LET is_valid ==
            IF ~IsSome(pipe_id) THEN TRUE
            ELSE IF ~IsSome(dev_addr) THEN FALSE
            ELSE LET slot == h.pipes[Unwrap(pipe_id)]
                 IN  IsSome(slot) /\ Unwrap(slot).kind = "Control"
    IN  IF is_valid THEN Ok ELSE InvalidPipe

validate_control_pipe(h, dev_addr, pipe_id) ==
    LET is_valid ==
            IF ~IsSome(pipe_id) THEN TRUE
            ELSE IF ~IsSome(dev_addr) THEN FALSE
            ELSE LET slot == h.pipes[Unwrap(pipe_id)]
                 IN  IF IsSome(slot) /\ Unwrap(slot).kind = "Control"
                     THEN Unwrap(slot).dev_addr = Unwrap(dev_addr)
                     ELSE FALSE
    IN  IF is_valid THEN Ok ELSE InvalidPipe

\* a control_in that does not look at active_transfer
control_in_NoBusyCheck(h, dev_addr, pipe_id, setup) ==
    IF validate_control_pipe(h, dev_addr, pipe_id) # Ok THEN Ret(h, InvalidPipe)
    ELSE LET h1 == [h EXCEPT !.active_transfer =
                        Some([pipe_id |-> pipe_id, transfer |-> new_control_in(setup.length)])]
             h2 == BusCall(h1, [op |-> "set_recipient", dev_addr |-> dev_addr, endpoint |-> 0,
                                transfer_type |-> "Control"])
             h3 == BusCall(h2, [op |-> "write_setup", setup |-> setup])
         IN  Ret(h3, Ok)

control_in(h, dev_addr, pipe_id, setup) ==
    IF validate_control_pipe(h, dev_addr, pipe_id) # Ok THEN Ret(h, InvalidPipe)
    ELSE IF IsSome(h.active_transfer) THEN Ret(h, WouldBlock)
    ELSE LET h1 == [h EXCEPT !.active_transfer =
                        Some([pipe_id |-> pipe_id, transfer |-> new_control_in(setup.length)])]
             h2 == BusCall(h1, [op |-> "set_recipient", dev_addr |-> dev_addr, endpoint |-> 0,
                                transfer_type |-> "Control"])
             h3 == BusCall(h2, [op |-> "write_setup", setup |-> setup])
         IN  Ret(h3, Ok)

control_out(h, dev_addr, pipe_id, setup, data_len) ==
    IF validate_control_pipe(h, dev_addr, pipe_id) # Ok THEN Ret(h, InvalidPipe)
    ELSE IF IsSome(h.active_transfer) THEN Ret(h, WouldBlock)
    ELSE LET h1 == [h EXCEPT !.active_transfer =
                        Some([pipe_id |-> pipe_id, transfer |-> new_control_out(data_len)])]
             h2 == BusCall(h1, [op |-> "set_recipient", dev_addr |-> dev_addr, endpoint |-> 0,
                                transfer_type |-> "Control"])
             h3 == BusCall(h2, [op |-> "prepare_data_out", len |-> data_len])
             h4 == BusCall(h3, [op |-> "write_setup", setup |-> setup])
         IN  Ret(h4, Ok)

get_descriptor(h, dev_addr, pipe_id, recipient, descriptor_type, descriptor_index, length) ==
    control_in(h, dev_addr, pipe_id,
               SetupPacket_new("In", Standard, recipient, GET_DESCRIPTOR,
                               descriptor_type * 256 + descriptor_index, 0, length))

set_address(h, address) ==
    control_out(h, None, None,
                SetupPacket_new("Out", Standard, Device, SET_ADDRESS, address, 0, 0), 0)

set_configuration(h, dev_addr, pipe_id, configuration) ==
    control_out(h, Some(dev_addr), pipe_id,
                SetupPacket_new("Out", Standard, Device, SET_CONFIGURATION, configuration, 0, 0), 0)

\* `.ok().unwrap()` on the result of a submission: panics unless it is Ok
OkUnwrap(h) == IF h.ret = Ok THEN h ELSE Panic(h)

\* an allocation that takes the highest free slot
alloc_pipe_Highest(h) ==
    LET free == {i \in 0..(MAX_PIPES - 1) : ~IsSome(h.pipes[i])}
    IN  IF free = {} THEN None
        ELSE Some(CHOOSE i \in free : \A j \in free : i >= j)

\* an allocation that hands out slot 0 again when every slot is taken
alloc_pipe_Wrap(h) ==
    LET free == {i \in 0..(MAX_PIPES - 1) : ~IsSome(h.pipes[i])}
    IN  IF free = {} THEN Some(0)
        ELSE Some(CHOOSE i \in free : \A j \in free : i <= j)

\* the index of the first empty slot, or None
alloc_pipe(h) ==
    LET free == {i \in 0..(MAX_PIPES - 1) : ~IsSome(h.pipes[i])}
    IN  IF free = {} THEN None
        ELSE Some(CHOOSE i \in free : \A j \in free : i <= j)

create_control_pipe(h, dev_addr) ==
    LET id == alloc_pipe(h)
    IN  IF IsSome(id)
        THEN Ret([h EXCEPT !.pipes[Unwrap(id)] = Some(ControlPipe(dev_addr))], id)
        ELSE Ret(h, None)

\* HostBus::create_interrupt_pipe: the bus allocates its lowest free pipe, if any
bus_create_interrupt_pipe(b) ==
    LET free == (1..MaxBusPipes) \ b.refs
    IN  IF free = {} THEN None
        ELSE LET r == CHOOSE i \in free : \A j \in free : i <= j
             IN  Some([bus_ref |-> r, ptr |-> BufPtr(r)])

\* a creation that keeps the bus pipe when the host has no slot for it
create_interrupt_pipe_NoRelease(h, dev_addr, ep_number, direction, size, interval) ==
    LET got == bus_create_interrupt_pipe(h.bus)
    IN  IF IsSome(got)
        THEN LET bp == Unwrap(got)
                 h1 == BusCall(h, [op |-> "create_interrupt_pipe", dev_addr |-> dev_addr,
                                   ep_number |-> ep_number, direction |-> direction,
                                   size |-> size, interval |-> interval,
                                   bus_ref |-> bp.bus_ref])
                 id == alloc_pipe(h1)
             IN  IF IsSome(id)
                 THEN Ret([h1 EXCEPT !.pipes[Unwrap(id)] =
                               Some(InterruptPipe(dev_addr, bp.bus_ref, direction, size, bp.ptr))],
                          id)
                 ELSE Ret(h1, None)
        ELSE Ret(h, None)

create_interrupt_pipe(h, dev_addr, ep_number, direction, size, interval) ==
    LET got == bus_create_interrupt_pipe(h.bus)
    IN  IF IsSome(got)
        THEN LET bp == Unwrap(got)
                 h1 == BusCall(h, [op |-> "create_interrupt_pipe", dev_addr |-> dev_addr,
                                   ep_number |-> ep_number, direction |-> direction,
                                   size |-> size, interval |-> interval,
                                   bus_ref |-> bp.bus_ref])
                 id == alloc_pipe(h1)
             IN  IF IsSome(id)
                 THEN Ret([h1 EXCEPT !.pipes[Unwrap(id)] =
                               Some(InterruptPipe(dev_addr, bp.bus_ref, direction, size, bp.ptr))],
                          id)
                 ELSE Ret(BusCall(h1, [op |-> "release_interrupt_pipe", bus_ref |-> bp.bus_ref]),
                          None)
        ELSE Ret(h, None)

next_address(h) ==
    LET a == (h.last_address + 1) % 256
        b == IF a = 0 THEN a + 1 ELSE a
    IN  Ret([h EXCEPT !.last_address = b], b)

reset(h) ==
    LET h1 == BusCall(h, [op |-> "reset_controller"])
    IN  [h1 EXCEPT !.state = Enumeration(WaitForDevice),
                   !.active_transfer = None,
                   !.last_address = 0,
                   !.pipes = EmptyPipes]

cleanup(h, addr) ==
    LET h1 == [h EXCEPT !.pipes =
                   [i \in 0..(MAX_PIPES - 1) |->
                       IF IsSome(h.pipes[i]) /\ Unwrap(h.pipes[i]).dev_addr = addr
                       THEN None ELSE h.pipes[i]]]
    IN  IF IsSome(h1.active_transfer)
        THEN [h1 EXCEPT !.active_transfer = None]
        ELSE h1

(***************************************************************************)
(* transfer.rs: Transfer::stage_complete.  Returns the host after the bus  *)
(* calls of the stage and the transfer::PollResult.                        *)
(***************************************************************************)
Continue(h, t, stage) ==
    [h |-> h, res |-> [tag |-> "Continue", transfer |-> [t EXCEPT !.stage = stage]]]

\* a control OUT transfer that goes to the status stage whatever its length
stage_complete_NoData(t, h) ==
    IF t.dir = "In"
    THEN CASE t.stage = "WaitSetup" ->
                Continue(BusCall(h, [op |-> "write_data_in", length |-> t.length, pid |-> TRUE]),
                         t, "WaitData")
           [] t.stage = "WaitData" ->
                Continue(BusCall(h, [op |-> "write_data_out", len |-> 0]), t, "WaitConfirm")
           [] t.stage = "WaitConfirm" ->
                [h |-> h, res |-> [tag |-> "ControlInComplete", length |-> t.length]]
    ELSE CASE t.stage \in {"WaitSetup", "WaitData"} ->
                Continue(BusCall(h, [op |-> "write_data_in", length |-> 0, pid |-> TRUE]),
                         t, "WaitConfirm")
           [] t.stage = "WaitConfirm" ->
                [h |-> h, res |-> [tag |-> "ControlOutComplete"]]

\* a control IN transfer that completes without a status stage
stage_complete_NoStatus(t, h) ==
    IF t.dir = "In"
    THEN CASE t.stage = "WaitSetup" ->
                Continue(BusCall(h, [op |-> "write_data_in", length |-> t.length, pid |-> TRUE]),
                         t, "WaitData")
           [] t.stage \in {"WaitData", "WaitConfirm"} ->
                [h |-> h, res |-> [tag |-> "ControlInComplete", length |-> t.length]]
    ELSE CASE t.stage = "WaitSetup" ->
                IF t.length = 0
                THEN Continue(BusCall(h, [op |-> "write_data_in", length |-> 0, pid |-> TRUE]),
                              t, "WaitConfirm")
                ELSE Continue(BusCall(h, [op |-> "write_data_out_prepared"]), t, "WaitData")
           [] t.stage = "WaitData" ->
                Continue(BusCall(h, [op |-> "write_data_in", length |-> 0, pid |-> TRUE]),
                         t, "WaitConfirm")
           [] t.stage = "WaitConfirm" ->
                [h |-> h, res |-> [tag |-> "ControlOutComplete"]]

stage_complete(t, h) ==
    IF t.dir = "In"
    THEN CASE t.stage = "WaitSetup" ->
                Continue(BusCall(h, [op |-> "write_data_in", length |-> t.length, pid |-> TRUE]),
                         t, "WaitData")
           [] t.stage = "WaitData" ->
                Continue(BusCall(h, [op |-> "write_data_out", len |-> 0]), t, "WaitConfirm")
           [] t.stage = "WaitConfirm" ->
                [h |-> h, res |-> [tag |-> "ControlInComplete", length |-> t.length]]
    ELSE CASE t.stage = "WaitSetup" ->
                IF t.length = 0
                THEN Continue(BusCall(h, [op |-> "write_data_in", length |-> 0, pid |-> TRUE]),
                              t, "WaitConfirm")
                ELSE Continue(BusCall(h, [op |-> "write_data_out_prepared"]), t, "WaitData")
           [] t.stage = "WaitData" ->
                Continue(BusCall(h, [op |-> "write_data_in", length |-> 0, pid |-> TRUE]),
                         t, "WaitConfirm")
           [] t.stage = "WaitConfirm" ->
                [h |-> h, res |-> [tag |-> "ControlOutComplete"]]

(***************************************************************************)
(* descriptor.rs: the parsers (nom, streaming).  A parser returns          *)
(* [ok |-> TRUE, rest, ...] or [ok |-> FALSE]; any_descriptor can also     *)
(* overflow in `length - 2`, which panics in a build with overflow checks  *)
(* and wraps around in a build without.                                    *)
(***************************************************************************)
Drop(s, n) == SubSeq(s, n + 1, Len(s))
Take(s, n) == SubSeq(s, 1, n)

ParseErr == [ok |-> FALSE, panic |-> FALSE]

\* a framing that takes `length` bytes of data, not `length - 2`
any_descriptor_WholeLength(input, overflow_checks) ==
    IF Len(input) < 2 THEN ParseErr
    ELSE LET length == input[1]
             descriptor_type == input[2]
             rest == Drop(input, 2)
         IN  IF Len(rest) < length THEN ParseErr
             ELSE [ok |-> TRUE, panic |-> FALSE, rest |-> Drop(rest, length),
                   length |-> length, descriptor_type |-> descriptor_type,
                   data |-> Take(rest, length)]

any_descriptor(input, overflow_checks) ==
    IF Len(input) < 2 THEN ParseErr
    ELSE LET length == input[1]
             descriptor_type == input[2]
             rest == Drop(input, 2)
         IN  IF length < 2 /\ overflow_checks THEN [ok |-> FALSE, panic |-> TRUE]
             ELSE LET n == (length - 2) % 256
                  IN  IF Len(rest) < n THEN ParseErr
                      ELSE [ok |-> TRUE, panic |-> FALSE, rest |-> Drop(rest, n),
                            length |-> length, descriptor_type |-> descriptor_type,
                            data |-> Take(rest, n)]

le_u16(input, at) == input[at] + 256 * input[at + 1]

Nibble(v, k) == (v \div (16 ^ k)) % 16

\* a validity test that lets the nibble 0xA pass
Bcd16_is_valid_UpToTen(value) ==
    /\ Nibble(value, 3) <= 10
    /\ Nibble(value, 2) <= 10
    /\ Nibble(value, 1) <= 10
    /\ Nibble(value, 0) <= 10

Bcd16_is_valid(value) ==
    /\ Nibble(value, 3) < 10
    /\ Nibble(value, 2) < 10
    /\ Nibble(value, 1) < 10
    /\ Nibble(value, 0) < 10

\* descriptor.rs: EndpointAddress::number, `self.0 & 0b111`
EndpointAddress_number(address) == address % 8

\* types.rs: Bcd16::to_digits, most significant digit first
Bcd16_to_digits(value) ==
    <<(value \div 4096) % 16, (value \div 256) % 16, (value \div 16) % 16, value % 16>>

\* descriptor.rs: parse::bcd_16, map(verify(le_u16, is_valid), Bcd16)
bcd_16(input) ==
    IF Len(input) < 2 THEN ParseErr
    ELSE IF ~Bcd16_is_valid(le_u16(input, 1)) THEN ParseErr
    ELSE [ok |-> TRUE, panic |-> FALSE, rest |-> Drop(input, 2),
          value |-> le_u16(input, 1)]

\* tuple((bcd_16, u8, u8, u8, u8, le_u16, le_u16, bcd_16, u8, u8, u8, u8)): 16 bytes
device_descriptor(input) ==
    IF Len(input) < 2 THEN ParseErr
    ELSE IF ~Bcd16_is_valid(le_u16(input, 1)) THEN ParseErr
    ELSE IF Len(input) < 12 THEN ParseErr
    ELSE IF ~Bcd16_is_valid(le_u16(input, 11)) THEN ParseErr
    ELSE IF Len(input) < 16 THEN ParseErr
    ELSE [ok |-> TRUE, panic |-> FALSE, rest |-> Drop(input, 16),
          num_configurations |-> input[16]]

configuration_descriptor_length(input) ==
    IF Len(input) < 2 THEN ParseErr
    ELSE [ok |-> TRUE, panic |-> FALSE, rest |-> Drop(input, 2),
          total_length |-> le_u16(input, 1)]

(***************************************************************************)
(* enumeration.rs: process_enumeration.  Returns the host after the calls  *)
(* of the step, with the next EnumerationState in `es`.                    *)
(***************************************************************************)
WithEs(h, es) == [h |-> h, es |-> es]

\* process_enumeration submitting on the Sof that finds n = 1
process_enumeration_SubmitAtOne(event, es, h) ==
    CASE es.tag = "WaitForDevice" ->
            IF event.tag = "Attached"
            THEN WithEs(BusCall(h, [op |-> "reset_bus"]), Reset0)
            ELSE WithEs(h, es)
      [] es.tag = "Reset0" ->
            IF event.tag = "Attached"
            THEN WithEs(BusCall(BusCall(h, [op |-> "enable_sof"]),
                                [op |-> "interrupt_on_sof", on |-> TRUE]),
                        Delay0(RESET_0_DELAY))
            ELSE WithEs(h, es)
      [] es.tag = "Delay0" ->
            IF event.tag = "Sof"
            THEN IF es.n > 1 THEN WithEs(h, Delay0(es.n - 1))
                 ELSE WithEs(OkUnwrap(get_descriptor(h, None, None, Device, TYPE_DEVICE, 0, 8)),
                             WaitDescriptor)
            ELSE IF event.tag = "Detached" THEN WithEs(h, WaitForDevice)
            ELSE WithEs(h, es)
      [] es.tag = "WaitDescriptor" ->
            IF event.tag = "Detached"
            THEN WithEs(BusCall(h, [op |-> "interrupt_on_sof", on |-> FALSE]), WaitForDevice)
            ELSE IF event.tag = "ControlInData"
            THEN WithEs(BusCall(h, [op |-> "reset_bus"]), Reset1)
            ELSE WithEs(h, es)
      [] es.tag = "Reset1" ->
            IF event.tag = "Attached"
            THEN WithEs(BusCall(h, [op |-> "enable_sof"]), Delay1(event.speed, RESET_1_DELAY))
            ELSE WithEs(h, es)
      [] es.tag = "Delay1" ->
            IF event.tag = "Sof"
            THEN IF es.n > 1 THEN WithEs(h, Delay1(es.speed, es.n - 1))
                 ELSE LET h1 == next_address(h)
                          address == h1.ret
                      IN  WithEs(OkUnwrap(set_address(h1, address)),
                                 WaitSetAddress(es.speed, address))
            ELSE IF event.tag = "Detached"
            THEN WithEs(BusCall(h, [op |-> "interrupt_on_sof", on |-> FALSE]), WaitForDevice)
            ELSE WithEs(h, es)
      [] es.tag = "WaitSetAddress" ->
            IF event.tag = "Detached"
            THEN WithEs(BusCall(h, [op |-> "interrupt_on_sof", on |-> FALSE]), WaitForDevice)
            ELSE IF event.tag = "ControlOutComplete"
            THEN WithEs(BusCall(h, [op |-> "interrupt_on_sof", on |-> FALSE]),
                        Assigned(es.speed, es.addr))
            ELSE WithEs(h, es)

process_enumeration(event, es, h) ==
    CASE es.tag = "WaitForDevice" ->
            IF event.tag = "Attached"
            THEN WithEs(BusCall(h, [op |-> "reset_bus"]), Reset0)
            ELSE WithEs(h, es)
      [] es.tag = "Reset0" ->
            IF event.tag = "Attached"
            THEN WithEs(BusCall(BusCall(h, [op |-> "enable_sof"]),
                                [op |-> "interrupt_on_sof", on |-> TRUE]),
                        Delay0(RESET_0_DELAY))
            ELSE WithEs(h, es)
      [] es.tag = "Delay0" ->
            IF event.tag = "Sof"
            THEN IF es.n > 0 THEN WithEs(h, Delay0(es.n - 1))
                 ELSE WithEs(OkUnwrap(get_descriptor(h, None, None, Device, TYPE_DEVICE, 0, 8)),
                             WaitDescriptor)
            ELSE IF event.tag = "Detached" THEN WithEs(h, WaitForDevice)
            ELSE WithEs(h, es)
      [] es.tag = "WaitDescriptor" ->
            IF event.tag = "Detached"
            THEN WithEs(BusCall(h, [op |-> "interrupt_on_sof", on |-> FALSE]), WaitForDevice)
            ELSE IF event.tag = "ControlInData"
            THEN WithEs(BusCall(h, [op |-> "reset_bus"]), Reset1)
            ELSE WithEs(h, es)
      [] es.tag = "Reset1" ->
            IF event.tag = "Attached"
            THEN WithEs(BusCall(h, [op |-> "enable_sof"]), Delay1(event.speed, RESET_1_DELAY))
            ELSE WithEs(h, es)
      [] es.tag = "Delay1" ->
            IF event.tag = "Sof"
            THEN IF es.n > 0 THEN WithEs(h, Delay1(es.speed, es.n - 1))
                 ELSE LET h1 == next_address(h)
                          address == h1.ret
                      IN  WithEs(OkUnwrap(set_address(h1, address)),
                                 WaitSetAddress(es.speed, address))
            ELSE IF event.tag = "Detached"
            THEN WithEs(BusCall(h, [op |-> "interrupt_on_sof", on |-> FALSE]), WaitForDevice)
            ELSE WithEs(h, es)
      [] es.tag = "WaitSetAddress" ->
            IF event.tag = "Detached"
            THEN WithEs(BusCall(h, [op |-> "interrupt_on_sof", on |-> FALSE]), WaitForDevice)
            ELSE IF event.tag = "ControlOutComplete"
            THEN WithEs(BusCall(h, [op |-> "interrupt_on_sof", on |-> FALSE]),
                        Assigned(es.speed, es.addr))
            ELSE WithEs(h, es)

(***************************************************************************)
(* discovery.rs: start_discovery and process_discovery.  Returns the host  *)
(* after the calls of the step, with the next DiscoveryState in `ds`.      *)
(* `data` is the control buffer the bus hands out for the transfer.        *)
(***************************************************************************)
WithDs(h, ds) == [h |-> h, ds |-> ds]

start_discovery(dev_addr, h) ==
    WithDs(OkUnwrap(get_descriptor(h, Some(dev_addr), None, Device, TYPE_DEVICE, 0, 18)),
           DeviceDesc)

\* driver.descriptor(dev_addr, descriptor_type, data) on every driver, in order
RECURSIVE descriptor_fanout(_, _, _, _, _)
descriptor_fanout(h, i, dev_addr, descriptor_type, data) ==
    IF i > NumDrivers THEN h
    ELSE descriptor_fanout(
             Callback(h, [cb |-> "descriptor", drv |-> i, addr |-> dev_addr,
                          descriptor_type |-> descriptor_type, data |-> data]),
             i + 1, dev_addr, descriptor_type, data)

\* the loop of ConfigDesc: frame one descriptor after the other until the
\* buffer is exhausted; returns the host and whether every one parsed
RECURSIVE config_desc_loop(_, _, _, _)
config_desc_loop(h, dev_addr, data, overflow_checks) ==
    LET d == any_descriptor(data, overflow_checks)
    IN  IF d.panic THEN [h |-> Panic(h), ok |-> FALSE]
        ELSE IF ~d.ok THEN [h |-> h, ok |-> FALSE]
        ELSE LET h1 == descriptor_fanout(h, 1, dev_addr, d.descriptor_type, d.data)
             IN  IF Len(d.rest) > 0
                 THEN config_desc_loop(h1, dev_addr, d.rest, overflow_checks)
                 ELSE [h |-> h1, ok |-> TRUE]

process_discovery(event, dev_addr, ds, h, data, overflow_checks) ==
    IF event.tag # "ControlInData" THEN WithDs(h, ds)
    ELSE
    CASE ds.tag = "DeviceDesc" ->
            LET d == any_descriptor(data, overflow_checks)
            IN  IF d.panic THEN WithDs(Panic(h), ds)
                ELSE IF ~d.ok THEN WithDs(h, ParseError)
                ELSE LET h1 == descriptor_fanout(h, 1, dev_addr, d.descriptor_type, d.data)
                         dd == device_descriptor(d.data)
                     IN  IF ~dd.ok THEN WithDs(h1, ParseError)
                         ELSE WithDs(OkUnwrap(get_descriptor(h1, Some(dev_addr), None, Device,
                                                             TYPE_CONFIGURATION, 0, 9)),
                                     ConfigDescLen(0, dd.num_configurations))
      [] ds.tag = "ConfigDescLen" ->
            LET d == any_descriptor(data, overflow_checks)
            IN  IF d.panic THEN WithDs(Panic(h), ds)
                ELSE IF ~d.ok THEN WithDs(h, ParseError)
                ELSE LET cl == configuration_descriptor_length(d.data)
                     IN  IF ~cl.ok THEN WithDs(h, ParseError)
                         ELSE WithDs(OkUnwrap(get_descriptor(h, Some(dev_addr), None, Device,
                                                             TYPE_CONFIGURATION, ds.n,
                                                             cl.total_length)),
                                     ConfigDesc(ds.n, ds.m))
      [] ds.tag = "ConfigDesc" ->
            LET r == config_desc_loop(h, dev_addr, data, overflow_checks)
            IN  IF r.h.panicked THEN WithDs(r.h, ds)
                ELSE IF ~r.ok THEN WithDs(r.h, ParseError)
                ELSE IF ds.n + 1 < ds.m
                THEN WithDs(OkUnwrap(get_descriptor(r.h, Some(dev_addr), None, Device,
                                                    TYPE_CONFIGURATION, ds.n + 1, 9)),
                            ConfigDesc(ds.n + 1, ds.m))
                ELSE WithDs(r.h, Done)

(***************************************************************************)
(* The drivers (driver.rs: trait Driver) are part of the environment.  A   *)
(* driver answers `configure` with None or a configuration value, and in   *)
(* `configured`, where it is handed the host, it follows one of the plans: *)
(*   "none"    it does nothing;                                            *)
(*   "pipes"   it creates a control pipe and an IN interrupt pipe, as the  *)
(*             keyboard driver does;                                       *)
(*   "submit"  it creates a control pipe and submits a control OUT         *)
(*             transfer on it.                                             *)
(* Every control_in / control_out call of a driver is recorded in `subs`   *)
(* with what the call found and what it did.                               *)
(***************************************************************************)
ConfigValues == {1, 2}
Plans == {"none", "pipes", "submit"}

\* the call of driver `by` that turned the host h into h1 is recorded
Submitted(h, h1, by, dev_addr, pipe_id) ==
        [h1 EXCEPT !.subs = Append(@,
            [by |-> by, dev_addr |-> dev_addr, pipe_id |-> pipe_id,
             slot |-> IF IsSome(pipe_id) THEN h.pipes[Unwrap(pipe_id)] ELSE None,
             was_active |-> IsSome(h.active_transfer),
             ret |-> h1.ret,
             ncalls |-> Len(h1.calls) - Len(h.calls),
             unchanged |-> /\ h1.active_transfer = h.active_transfer
                           /\ h1.pipes = h.pipes
                           /\ h1.state = h.state
                           /\ h1.last_address = h.last_address])]

\* a class request to an interface (as Kbd::set_idle, driver.rs lines 196-212)
Submit(h, by, dir, dev_addr, pipe_id, len) ==
    LET setup == SetupPacket_new(dir, 1, 1, 10, 0, 0, len)
    IN  Submitted(h, IF dir = "In" THEN control_in(h, dev_addr, pipe_id, setup)
                     ELSE control_out(h, dev_addr, pipe_id, setup, len),
                  by, dev_addr, pipe_id)

\* whether a driver following the plan goes on driving the device: it does
\* when the pipes it asked for were created (Kbd::configured, driver.rs lines
\* 331-350)
driver_drives(h, dev_addr, plan) ==
    LET h1 == create_control_pipe(h, dev_addr)
        h2 == create_interrupt_pipe(h1, dev_addr, 1, "In", 8, 10)
    IN  CASE plan = "none" -> FALSE
          [] plan = "pipes" -> IsSome(h1.ret) /\ IsSome(h2.ret)
          [] plan = "submit" -> IsSome(h1.ret)

driver_configured(h, i, dev_addr, plan) ==
    CASE plan = "none" -> h
      [] plan = "pipes" ->
            create_interrupt_pipe(create_control_pipe(h, dev_addr), dev_addr, 1, "In", 8, 10)
      [] plan = "submit" ->
            LET h1 == create_control_pipe(h, dev_addr)
            IN  IF IsSome(h1.ret) THEN Submit(h1, i, "Out", Some(dev_addr), h1.ret, 0)
                ELSE h1

(***************************************************************************)
(* lib.rs: UsbHost::poll                                                   *)
(***************************************************************************)
\* the bus raises an event (HostBus::poll returns it): the bus side of it
BusRaise(b, bev) ==
    CASE bev.tag = "Attached" -> [b EXCEPT !.present = TRUE, !.reattach = FALSE]
      [] bev.tag = "Detached" -> [b EXCEPT !.present = FALSE, !.pending = FALSE, !.owed = 0]
      [] bev.tag = "TransComplete" ->
            [b EXCEPT !.pending = FALSE, !.owed = IF @ > 0 THEN @ - 1 ELSE 0]
      [] bev.tag \in {"Stall", "Error"} -> [b EXCEPT !.pending = FALSE]
      [] OTHER -> b

\* the events the bus can raise in state b
BusCanRaise(b, bev) ==
    CASE bev.tag = "Attached" -> ~b.present \/ b.reattach
      [] bev.tag = "Detached" -> b.present
      [] bev.tag \in {"TransComplete", "Stall"} -> b.pending
      [] bev.tag = "Sof" -> b.sof_on /\ b.sof_irq
      [] bev.tag = "InterruptPipe" -> b.present /\ bev.ref \in b.refs
      [] bev.tag = "Resume" -> b.present
      [] OTHER -> TRUE

\* a translation in which a Stall drops the transfer in flight
translate_StallCancels(h, bev) ==
    CASE bev.tag = "NoEvent" -> [h |-> h, event |-> EvNone]
      [] bev.tag = "Attached" -> [h |-> h, event |-> EvAttached(bev.speed)]
      [] bev.tag = "Detached" -> [h |-> h, event |-> EvDetached]
      [] bev.tag = "TransComplete" ->
            IF IsSome(h.active_transfer)
            THEN LET at == Unwrap(h.active_transfer)
                     r == stage_complete(at.transfer, [h EXCEPT !.active_transfer = None])
                 IN  CASE r.res.tag = "ControlInComplete" ->
                            [h |-> r.h, event |-> EvControlInData(at.pipe_id, r.res.length)]
                       [] r.res.tag = "ControlOutComplete" ->
                            [h |-> r.h, event |-> EvControlOutComplete(at.pipe_id)]
                       [] r.res.tag = "Continue" ->
                            [h |-> [r.h EXCEPT !.active_transfer =
                                       Some([pipe_id |-> at.pipe_id,
                                             transfer |-> r.res.transfer])],
                             event |-> EvNone]
            ELSE [h |-> Panic(h), event |-> EvNone]
      [] bev.tag = "Resume" -> [h |-> h, event |-> EvResume]
      [] bev.tag = "Stall" -> [h |-> [h EXCEPT !.active_transfer = None], event |-> EvStall]
      [] bev.tag = "Error" -> [h |-> h, event |-> EvBusError(bev.kind)]
      [] bev.tag = "InterruptPipe" -> [h |-> h, event |-> EvInterruptPipe(bev.ref)]
      [] bev.tag = "Sof" -> [h |-> h, event |-> EvSof]

\* lines 266-303: the bus event becomes the internal event
translate(h, bev) ==
    CASE bev.tag = "NoEvent" -> [h |-> h, event |-> EvNone]
      [] bev.tag = "Attached" -> [h |-> h, event |-> EvAttached(bev.speed)]
      [] bev.tag = "Detached" -> [h |-> h, event |-> EvDetached]
      [] bev.tag = "TransComplete" ->
            IF IsSome(h.active_transfer)
            THEN LET at == Unwrap(h.active_transfer)
                     r == stage_complete(at.transfer, [h EXCEPT !.active_transfer = None])
                 IN  CASE r.res.tag = "ControlInComplete" ->
                            [h |-> r.h, event |-> EvControlInData(at.pipe_id, r.res.length)]
                       [] r.res.tag = "ControlOutComplete" ->
                            [h |-> r.h, event |-> EvControlOutComplete(at.pipe_id)]
                       [] r.res.tag = "Continue" ->
                            [h |-> [r.h EXCEPT !.active_transfer =
                                       Some([pipe_id |-> at.pipe_id,
                                             transfer |-> r.res.transfer])],
                             event |-> EvNone]
            ELSE [h |-> Panic(h), event |-> EvNone]
      [] bev.tag = "Resume" -> [h |-> h, event |-> EvResume]
      [] bev.tag = "Stall" -> [h |-> h, event |-> EvStall]
      [] bev.tag = "Error" -> [h |-> h, event |-> EvBusError(bev.kind)]
      [] bev.tag = "InterruptPipe" -> [h |-> h, event |-> EvInterruptPipe(bev.ref)]
      [] bev.tag = "Sof" -> [h |-> h, event |-> EvSof]

\* a fan-out of `attached` that stops after the first driver
attached_fanout_FirstOnly(h, i, dev_addr, speed) ==
    IF i > NumDrivers THEN h
    ELSE Callback(h, [cb |-> "attached", drv |-> i, addr |-> dev_addr, speed |-> speed])

\* driver.attached(dev_addr, speed) on every driver, in order
RECURSIVE attached_fanout(_, _, _, _)
attached_fanout(h, i, dev_addr, speed) ==
    IF i > NumDrivers THEN h
    ELSE attached_fanout(
             Callback(h, [cb |-> "attached", drv |-> i, addr |-> dev_addr, speed |-> speed]),
             i + 1, dev_addr, speed)

\* driver.detached(dev_addr) on every driver, in order
RECURSIVE detached_fanout(_, _, _)
detached_fanout(h, i, dev_addr) ==
    IF i > NumDrivers THEN h
    ELSE detached_fanout(Callback(h, [cb |-> "detached", drv |-> i, addr |-> dev_addr]),
                         i + 1, dev_addr)

\* an election that asks every driver and lets the last answer win
RECURSIVE configure_election_AskAll(_, _, _, _)
configure_election_AskAll(h, i, dev_addr, answers) ==
    IF i > NumDrivers THEN h
    ELSE LET h1 == Callback(h, [cb |-> "configure", drv |-> i, addr |-> dev_addr,
                                answer |-> answers[i]])
             h2 == IF i = 1 THEN Ret(h1, None) ELSE h1
         IN  configure_election_AskAll(
                 IF IsSome(answers[i]) THEN Ret(h2, answers[i]) ELSE h2,
                 i + 1, dev_addr, answers)

\* lines 326-335: driver.configure(dev_addr) until the first Some; the chosen
\* configuration is left in ret
RECURSIVE configure_election(_, _, _, _)
configure_election(h, i, dev_addr, answers) ==
    IF i > NumDrivers THEN Ret(h, None)
    ELSE LET h1 == Callback(h, [cb |-> "configure", drv |-> i, addr |-> dev_addr,
                                answer |-> answers[i]])
         IN  IF IsSome(answers[i]) THEN Ret(h1, answers[i])
             ELSE configure_election(h1, i + 1, dev_addr, answers)

\* a fan-out of `configured` that stops after the first driver
configured_fanout_FirstOnly(h, i, dev_addr, config, plans) ==
    IF i > NumDrivers THEN h
    ELSE driver_configured(
             Callback(h, [cb |-> "configured", drv |-> i, addr |-> dev_addr,
                          config |-> config,
                          drives |-> driver_drives(h, dev_addr, plans[i])]),
             i, dev_addr, plans[i])

\* lines 359-361: driver.configured(dev_addr, config, host) on every driver
RECURSIVE configured_fanout(_, _, _, _, _)
configured_fanout(h, i, dev_addr, config, plans) ==
    IF i > NumDrivers THEN h
    ELSE configured_fanout(
             driver_configured(
                 Callback(h, [cb |-> "configured", drv |-> i, addr |-> dev_addr,
                              config |-> config,
                              drives |-> driver_drives(h, dev_addr, plans[i])]),
                 i, dev_addr, plans[i]),
             i + 1, dev_addr, config, plans)

\* a fan-out that hands no data to the drivers
RECURSIVE completed_control_fanout_NoData(_, _, _, _, _)
completed_control_fanout_NoData(h, i, dev_addr, pipe_id, data) ==
    IF i > NumDrivers THEN h
    ELSE completed_control_fanout_NoData(
             Callback(h, [cb |-> "completed_control", drv |-> i, addr |-> dev_addr,
                          pipe_id |-> pipe_id, data |-> None]),
             i + 1, dev_addr, pipe_id, data)

\* lines 385-387, 393-395: driver.completed_control(dev_addr, pipe_id, data)
RECURSIVE completed_control_fanout(_, _, _, _, _)
completed_control_fanout(h, i, dev_addr, pipe_id, data) ==
    IF i > NumDrivers THEN h
    ELSE completed_control_fanout(
             Callback(h, [cb |-> "completed_control", drv |-> i, addr |-> dev_addr,
                          pipe_id |-> pipe_id, data |-> data]),
             i + 1, dev_addr, pipe_id, data)

\* a fan-out that stops after the first driver
completed_io_fanout_FirstOnly(h, i, cb, dev_addr, pipe_id, size) ==
    Callback(h, [cb |-> cb, drv |-> 1, addr |-> dev_addr, pipe_id |-> pipe_id, size |-> size])

\* lines 428-437: driver.completed_in / completed_out(dev_addr, pipe_id, buf)

RECURSIVE completed_io_fanout(_, _, _, _, _, _)
completed_io_fanout(h, i, cb, dev_addr, pipe_id, size) ==
    IF i > NumDrivers THEN h
    ELSE completed_io_fanout(
             Callback(h, [cb |-> cb, drv |-> i, addr |-> dev_addr,
                          pipe_id |-> pipe_id, size |-> size]),
             i + 1, cb, dev_addr, pipe_id, size)

\* lines 400-411: the first slot holding an interrupt pipe with this bus_ref
matching_pipe(h, pipe_ref) ==
    LET hits == {i \in 0..(MAX_PIPES - 1) :
                    /\ IsSome(h.pipes[i])
                    /\ Unwrap(h.pipes[i]).kind = "Interrupt"
                    /\ Unwrap(h.pipes[i]).bus_ref = pipe_ref}
    IN  IF hits = {} THEN None
        ELSE Some(CHOOSE i \in hits : \A j \in hits : i <= j)

\* lines 460-466
poll_result(h) ==
    IF h.state = Enumeration(WaitForDevice) THEN NoDevice
    ELSE IF IsSome(h.active_transfer) THEN Busy
    ELSE Idle

Finish(h) == IF h.panicked THEN h ELSE Ret(h, poll_result(h))

\* lines 306-319
poll_enumeration(h, event) ==
    LET r == process_enumeration(event, h.state.sub, h)
    IN  IF r.h.panicked THEN r.h
        ELSE IF r.es.tag = "Assigned"
        THEN LET h1 == attached_fanout(r.h, 1, r.es.addr, r.es.speed)
                 d == start_discovery(r.es.addr, h1)
             IN  IF d.h.panicked THEN d.h
                 ELSE Finish([d.h EXCEPT !.state = Discovery(r.es.addr, d.ds)])
        ELSE Finish([r.h EXCEPT !.state = Enumeration(r.es)])

\* lines 321-352
poll_discovery(h, event, data, overflow_checks, answers) ==
    LET dev_addr == h.state.addr
        r == process_discovery(event, dev_addr, h.state.sub, h, data, overflow_checks)
    IN  IF r.h.panicked THEN r.h
        ELSE IF r.ds.tag = "Done"
        THEN LET h1 == configure_election(r.h, 1, dev_addr, answers)
                 chosen_config == h1.ret
             IN  IF IsSome(chosen_config)
                 THEN LET config == Unwrap(chosen_config)
                          h2 == OkUnwrap(set_configuration(h1, dev_addr, None, config))
                      IN  IF h2.panicked THEN h2
                          ELSE Finish([h2 EXCEPT !.state = Configuring(dev_addr, config)])
                 ELSE Finish([h1 EXCEPT !.state = Dormant(dev_addr)])
        ELSE IF r.ds.tag = "ParseError"
        THEN Ret([r.h EXCEPT !.state = Dormant(dev_addr)], DiscoveryError(dev_addr))
        ELSE Finish([r.h EXCEPT !.state = Discovery(dev_addr, r.ds)])

\* a Configuring phase that handles Detached as the Configured phase does
poll_configuring_CleanupOnly(h, event, plans) ==
    LET dev_addr == h.state.addr
        config == h.state.config
    IN  IF event.tag = "ControlOutComplete"
        THEN Finish([configured_fanout(h, 1, dev_addr, config, plans)
                        EXCEPT !.state = Configured(dev_addr, config)])
        ELSE IF event.tag = "Detached"
        THEN Finish(cleanup(detached_fanout(h, 1, dev_addr), dev_addr))
        ELSE Finish(h)

\* lines 354-372
poll_configuring(h, event, plans) ==
    LET dev_addr == h.state.addr
        config == h.state.config
    IN  IF event.tag = "ControlOutComplete"
        THEN Finish([configured_fanout(h, 1, dev_addr, config, plans)
                        EXCEPT !.state = Configured(dev_addr, config)])
        ELSE IF event.tag = "Detached"
        THEN Finish(reset(detached_fanout(h, 1, dev_addr)))
        ELSE Finish(h)

\* lines 374-447
poll_configured(h, event, data) ==
    LET dev_addr == h.state.addr
    IN  CASE event.tag = "Detached" ->
                Finish(cleanup(detached_fanout(h, 1, dev_addr), dev_addr))
          [] event.tag = "ControlInData" ->
                IF IsSome(event.pipe_id)
                THEN Finish(completed_control_fanout(
                                BusCall(h, [op |-> "received_data", length |-> event.length]),
                                1, dev_addr, Unwrap(event.pipe_id), Some(data)))
                ELSE Finish(h)
          [] event.tag = "ControlOutComplete" ->
                IF IsSome(event.pipe_id)
                THEN Finish(completed_control_fanout(h, 1, dev_addr, Unwrap(event.pipe_id), None))
                ELSE Finish(h)
          [] event.tag = "InterruptPipe" ->
                LET m == matching_pipe(h, event.ref)
                    h1 == IF IsSome(m)
                          THEN LET pipe == Unwrap(h.pipes[Unwrap(m)])
                               IN  completed_io_fanout(
                                       h, 1,
                                       IF pipe.direction = "In" THEN "completed_in"
                                       ELSE "completed_out",
                                       pipe.dev_addr, Unwrap(m), pipe.size)
                          ELSE h
                IN  Finish(BusCall(h1, [op |-> "pipe_continue", bus_ref |-> event.ref]))
          [] event.tag = "BusError" -> Ret(h, BusError(event.kind))
          [] OTHER -> Finish(h)

\* lines 449-457
poll_dormant(h, event) ==
    IF event.tag = "Detached"
    THEN Finish(reset(detached_fanout(h, 1, h.state.addr)))
    ELSE Finish(h)

\* lines 265-467.  bev: the event of the bus; data: the buffer the bus hands out
\* for a completed IN transfer; answers, plans: what the drivers do
poll(h, bev, data, overflow_checks, answers, plans) ==
    LET t == translate(h, bev)
    IN  IF t.h.panicked THEN t.h
        ELSE CASE t.h.state.tag = "Enumeration" -> poll_enumeration(t.h, t.event)
               [] t.h.state.tag = "Discovery" ->
                    poll_discovery(t.h, t.event, data, overflow_checks, answers)
               [] t.h.state.tag = "Configuring" -> poll_configuring(t.h, t.event, plans)
               [] t.h.state.tag = "Configured" -> poll_configured(t.h, t.event, data)
               [] t.h.state.tag = "Dormant" -> poll_dormant(t.h, t.event)

(***************************************************************************)
(* The buffers the bus hands out for a completed control IN transfer.      *)
(***************************************************************************)
\* an 18 byte device descriptor announcing m configurations
DevDesc(m) == <<18, 1, 0, 2, 0, 0, 0, 8, 52, 18, 120, 86, 0, 1, 1, 2, 3, m>>
\* the same with a device release that is no BCD value (0x0A00)
DevDescBadBcd == <<18, 1, 0, 2, 0, 0, 0, 8, 52, 18, 120, 86, 0, 10, 1, 2, 3, 1>>
\* the 9 byte configuration descriptor: total_length 25, value 1
CfgHdr == <<9, 2, 25, 0, 1, 1, 0, 128, 50>>
\* configuration, interface (HID boot keyboard) and endpoint (IN 1, interrupt)
CfgFull == CfgHdr \o <<9, 4, 0, 0, 1, 3, 1, 1, 0>> \o <<7, 5, 129, 3, 8, 0, 10>>
\* a configuration descriptor cut after 4 bytes
CfgCut == <<9, 2, 25, 0>>
\* a descriptor whose length byte is 0
ZeroLen == <<0, 1>>

Buffers ==
    {DevDesc(1), DevDesc(2), DevDescBadBcd, CfgHdr, CfgFull, CfgCut, ZeroLen, <<>>}
    \cup {[i \in 1..n |-> 7] : n \in 1..MaxLen}

(***************************************************************************)
(* The state: the fields of UsbHost, the bus, and what the last operation  *)
(* did.                                                                    *)
(***************************************************************************)
VARIABLES
    state,            \* UsbHost.state
    active_transfer,  \* UsbHost.active_transfer
    last_address,     \* UsbHost.last_address
    pipes,            \* UsbHost.pipes
    bus,              \* the bus behind UsbHost.bus
    panicked,         \* the program has panicked
    op,               \* the last operation and the state it started in
    ret,              \* what it returned
    calls,            \* the bus calls it made, in order
    cbs,              \* the driver callbacks it made, in order
    subs,             \* the control_in / control_out calls of drivers in it
    life,             \* what each driver holds: its device slots (Kbd.devices)
    kept,             \* the resets of the host through which the drivers have
                      \* kept a device
    seen,             \* per driver, the address last attached and not yet
                      \* detached, and how far its callbacks have come
    stalled,          \* a Stall was consumed for the transfer now in flight
    step              \* how far the operations since `new` follow the cold plug

vars == <<state, active_transfer, last_address, pipes, bus, panicked,
          op, ret, calls, cbs, subs, life, kept, seen, stalled, step>>

\* the host at the start of an operation
Host ==
    [state |-> state, active_transfer |-> active_transfer, last_address |-> last_address,
     pipes |-> pipes, bus |-> bus, panicked |-> FALSE, ret |-> None,
     calls |-> <<>>, cbs |-> <<>>, subs |-> <<>>]

\* The callbacks of one device come in stages: attached, descriptor,
\* configure / configured, completed_*; detached ends them (trait Driver).
StageOf(cb) ==
    CASE cb = "attached" -> 1
      [] cb = "descriptor" -> 2
      [] cb \in {"configure", "configured"} -> 3
      [] cb \in {"completed_control", "completed_in", "completed_out"} -> 4
      [] cb = "detached" -> 5

\* Kbd::new (driver.rs lines 185-188): every slot is free
NoDevices == [s \in 1..MAX_DEVICES |-> None]

\* no driver holds a device
NoLife == [d \in Drivers |-> NoDevices]

\* Kbd::find_device_slot: the first slot that holds the address
find_device_slot(devices, device_address) ==
    LET found == {s \in 1..MAX_DEVICES :
                     /\ IsSome(devices[s])
                     /\ Unwrap(devices[s]).device_address = device_address}
    IN  IF found = {} THEN None
        ELSE Some(CHOOSE s \in found : \A t \in found : s <= t)

\* Kbd::remove_device
remove_device(devices, device_address) ==
    LET slot == find_device_slot(devices, device_address)
    IN  IF IsSome(slot) THEN [devices EXCEPT ![Unwrap(slot)] = None] ELSE devices

\* Kbd::attached: the first free slot takes the device, pending; nothing
\* when every slot is taken.  A slot that holds the address already is not
\* looked for.
Kbd_attached(devices, device_address) ==
    LET free == {s \in 1..MAX_DEVICES : ~IsSome(devices[s])}
    IN  IF free = {} THEN devices
        ELSE [devices EXCEPT ![CHOOSE s \in free : \A t \in free : s <= t] =
                 Some([device_address |-> device_address, inner |-> "Pending"])]

\* Kbd::detached: the first slot that holds the address is freed
Kbd_detached(devices, device_address) == remove_device(devices, device_address)

\* Kbd::configure: a driver that answers None gives the device up
Kbd_configure(devices, device_address, config) ==
    IF IsSome(config) THEN devices ELSE remove_device(devices, device_address)

\* Kbd::configured: a pending device the driver goes on driving becomes
\* configured; any other is given up
Kbd_configured(devices, device_address, drives) ==
    LET slot == find_device_slot(devices, device_address)
    IN  IF IsSome(slot) /\ Unwrap(devices[Unwrap(slot)]).inner = "Pending" /\ drives
        THEN [devices EXCEPT ![Unwrap(slot)] =
                 Some([device_address |-> device_address, inner |-> "Configured"])]
        ELSE remove_device(devices, device_address)

\* what each driver holds after the callbacks cs[i..]
RECURSIVE Lifecycle(_, _, _)
Lifecycle(cs, i, l) ==
    IF i > Len(cs) THEN l
    ELSE LET c == cs[i]
             devices == l[c.drv]
         IN  Lifecycle(cs, i + 1,
                 [l EXCEPT ![c.drv] =
                     CASE c.cb = "attached" -> Kbd_attached(devices, c.addr)
                       [] c.cb = "detached" -> Kbd_detached(devices, c.addr)
                       [] c.cb = "configure" -> Kbd_configure(devices, c.addr, c.answer)
                       [] c.cb = "configured" -> Kbd_configured(devices, c.addr, c.drives)
                       [] OTHER -> devices])

\* the addresses some driver holds
Held ==
    {Unwrap(life[p[1]][p[2]]).device_address :
        p \in {q \in Drivers \X (1..MAX_DEVICES) : IsSome(life[q[1]][q[2]])}}

\* the host goes on with the drivers it has
SameDrivers == kept <= MaxKept

\* no driver has kept a device through a reset of the host
Fresh == kept = 0

\* no callback has been seen
NoneSeen == [d \in Drivers |-> [addr |-> None, stage |-> 0]]

\* the callbacks cs[i..] seen by each driver: the address `attached` handed
\* it and `detached` has not taken back, and the stage its callbacks have
\* reached.  ok is lost when a driver gets a callback for another address or
\* for a stage it has left behind.
RECURSIVE CallbackOrder(_, _, _)
CallbackOrder(cs, i, l) ==
    IF i > Len(cs) THEN l
    ELSE LET c == cs[i]
             mine == l.of[c.drv]
             held == mine.addr = Some(c.addr)
         IN  CallbackOrder(cs, i + 1,
                 CASE c.cb = "attached" ->
                          [l EXCEPT !.of[c.drv] = [addr |-> Some(c.addr), stage |-> 1]]
                   [] c.cb = "detached" ->
                          IF held THEN [l EXCEPT !.of[c.drv] = [addr |-> None, stage |-> 0]]
                          ELSE [l EXCEPT !.ok = FALSE]
                   [] OTHER ->
                          IF held /\ mine.stage <= StageOf(c.cb)
                          THEN [l EXCEPT !.of[c.drv].stage = StageOf(c.cb)]
                          ELSE [l EXCEPT !.ok = FALSE])

(***************************************************************************)
(* The cold plug of one full speed device with a single configuration: the *)
(* bus events fed to poll, one after the other, from `new` on.  A control  *)
(* transfer completes stage by stage, each stage with one TransComplete    *)
(* (lib.rs lines 279-320); the buffer matters where the host reads it.     *)
(***************************************************************************)
Fed(bev) == [bev |-> bev, data |-> <<>>, claim |-> None]
AttachedFull == Fed([tag |-> "Attached", speed |-> "Full"])
StageDone == Fed([tag |-> "TransComplete"])
Delivered(data) == [StageDone EXCEPT !.data = data]
Sofs(n) == [i \in 1..n |-> Fed([tag |-> "Sof"])]

\* the value of the device's configuration (bConfigurationValue)
ColdPlugValue == CfgHdr[6]

\* sofs0 and sofs1 Sof events follow the first and the second reset
ColdPlug(sofs0, sofs1) ==
    <<AttachedFull, AttachedFull>> \o Sofs(sofs0)
    \o <<StageDone, StageDone, StageDone>>                    \* GET_DESCRIPTOR, 8 bytes
    \o <<AttachedFull>> \o Sofs(sofs1)
    \o <<StageDone, StageDone>>                               \* SET_ADDRESS
    \o <<StageDone, StageDone, Delivered(DevDesc(1))>>        \* device descriptor
    \o <<StageDone, StageDone, Delivered(CfgHdr)>>            \* configuration length
    \o <<StageDone, StageDone,
         [Delivered(CfgFull) EXCEPT !.claim = Some(ColdPlugValue)]>>
    \o <<StageDone, StageDone>>                               \* SET_CONFIGURATION

\* Delay0(n) and Delay1(_, n) submit on the Sof that finds n = 0
\* (enumeration.rs lines 62-78, 114-122)
Script == ColdPlug(RESET_0_DELAY + 1, RESET_1_DELAY + 1)

\* the operation o, which made the callbacks of h, is the event e of the script
Follows(h, o, e) ==
    /\ o.name = "poll" /\ o.bev = e.bev /\ o.data = e.data
    /\ IsSome(e.claim) =>
          \E k \in 1..Len(h.cbs) : h.cbs[k].cb = "configure" /\ h.cbs[k].answer = e.claim

\* the operation leaves the host as h
Becomes(h, o) ==
    /\ state' = h.state
    /\ active_transfer' = h.active_transfer
    /\ last_address' = h.last_address
    /\ pipes' = h.pipes
    /\ bus' = h.bus
    /\ panicked' = h.panicked
    /\ ret' = h.ret
    /\ calls' = h.calls
    /\ cbs' = h.cbs
    /\ subs' = h.subs
    /\ op' = o
    \* the drivers change in their callbacks only, and when the application
    \* replaces them by new ones; UsbHost::reset does not touch them
    /\ life' = IF o.name = "new_drivers" THEN NoLife ELSE Lifecycle(h.cbs, 1, life)
    /\ kept' = CASE o.name = "new_drivers" -> 0
                  [] o.name = "reset" /\ life # NoLife /\ kept <= MaxKept -> kept + 1
                  [] OTHER -> kept
    \* the callbacks are followed from the last reset of the host on
    /\ seen' = IF o.name = "reset" THEN NoneSeen
                ELSE CallbackOrder(h.cbs, 1, [of |-> seen, ok |-> TRUE]).of
    \* a Stall counts for the transfer in flight, until the next one is started
    /\ stalled' = IF o.name = "poll" /\ o.bev.tag = "Stall" /\ IsSome(h.active_transfer)
                   THEN TRUE
                   ELSE IF IsSome(h.active_transfer) /\ h.active_transfer # active_transfer
                   THEN FALSE
                   ELSE stalled
    /\ step' = IF IsSome(step) /\ Unwrap(step) < Len(Script)
                   /\ Follows(h, o, Script[Unwrap(step) + 1])
                THEN Some(Unwrap(step) + 1)
                ELSE None

\* UsbHost::new (lines 239-248)
Init ==
    /\ state = Enumeration(WaitForDevice)
    /\ active_transfer = None
    /\ last_address = 0
    /\ pipes = EmptyPipes
    /\ bus = BusInit
    /\ panicked = FALSE
    /\ op = [name |-> "new"]
    /\ ret = None
    /\ calls = <<[op |-> "reset_controller"]>>
    /\ cbs = <<>>
    /\ subs = <<>>
    /\ life = NoLife
    /\ kept = 0
    /\ seen = NoneSeen
    /\ stalled = FALSE
    /\ step = Some(0)

\* the transfer whose last stage the bus is completing, if it is an IN transfer
CompletingIn ==
    /\ IsSome(active_transfer)
    /\ Unwrap(active_transfer).transfer.dir = "In"
    /\ Unwrap(active_transfer).transfer.stage = "WaitConfirm"

\* the buffer is read in Discovery, and in Configured for a transfer with a pipe
DataRead ==
    /\ CompletingIn
    /\ \/ state.tag = "Discovery"
       \/ state.tag = "Configured" /\ IsSome(Unwrap(active_transfer).pipe_id)

DataFor(bev) ==
    IF bev.tag = "TransComplete" /\ DataRead
    THEN {b \in Buffers : Len(b) <= Unwrap(active_transfer).transfer.length}
    ELSE {<<>>}

\* whether the build checks arithmetic overflow (debug-assertions) decides what
\* `length - 2` does for a length byte below 2
BuildsFor(data) ==
    IF Len(data) >= 2 /\ data[1] < 2 THEN BOOLEAN ELSE {FALSE}

\* Kbd::find_pending_device: the first slot of driver d that holds the
\* address holds it pending.  Only then the driver answers `configure` with a
\* configuration (driver.rs line 312) and acts in `configured` (line 323).
HoldsPending(d, device_address) ==
    LET slot == find_device_slot(life[d], device_address)
    IN  IsSome(slot) /\ Unwrap(life[d][Unwrap(slot)]).inner = "Pending"

NoAnswers == [i \in Drivers |-> None]
NoPlans == [i \in Drivers |-> "none"]

\* the drivers are asked to configure when the last configuration arrived
AnswersFor(bev) ==
    IF bev.tag = "TransComplete" /\ state.tag = "Discovery" /\ state.sub.tag = "ConfigDesc"
    THEN {answers \in [Drivers -> Opt(ConfigValues)] :
             \A d \in Drivers : IsSome(answers[d]) => HoldsPending(d, state.addr)}
    ELSE {NoAnswers}

\* the drivers are told `configured` when SET_CONFIGURATION completed
PlansFor(bev) ==
    IF bev.tag = "TransComplete" /\ state.tag = "Configuring"
    THEN {plans \in [Drivers -> Plans] :
             \A d \in Drivers : plans[d] # "none" => HoldsPending(d, state.addr)}
    ELSE {NoPlans}

PollWith(bev) ==
    /\ ~panicked
    /\ SameDrivers
    /\ \E data \in DataFor(bev), answers \in AnswersFor(bev), plans \in PlansFor(bev) :
       \E overflow_checks \in BuildsFor(data) :
          Becomes(poll([Host EXCEPT !.bus = BusRaise(bus, bev)],
                       bev, data, overflow_checks, answers, plans),
                  [name |-> "poll", bev |-> bev, from |-> state,
                   was_active |-> IsSome(active_transfer),
                   pipe_id |-> IF IsSome(active_transfer)
                               THEN Unwrap(active_transfer).pipe_id ELSE None,
                   dir |-> IF IsSome(active_transfer)
                           THEN Unwrap(active_transfer).transfer.dir ELSE "none",
                   read |-> bev.tag = "TransComplete" /\ DataRead,
                   data |-> data])

\* the bus raises bev when it can
PollOn(bev) == BusCanRaise(bus, bev) /\ PollWith(bev)

PollNoEvent == PollOn([tag |-> "NoEvent"])
PollAttached == \E s \in Speeds : PollOn([tag |-> "Attached", speed |-> s])
PollDetached == PollOn([tag |-> "Detached"])
PollTransComplete == PollOn([tag |-> "TransComplete"])
PollStall == PollOn([tag |-> "Stall"])
PollResume == PollOn([tag |-> "Resume"])
PollError == \E k \in ErrorKinds : PollOn([tag |-> "Error", kind |-> k])
PollInterruptPipe == \E r \in 1..MaxBusPipes : PollOn([tag |-> "InterruptPipe", ref |-> r])
PollSof == PollOn([tag |-> "Sof"])

(***************************************************************************)
(* The calls drivers make on the host outside `configured`, from their own *)
(* methods (Kbd::set_idle, ...): control_in and control_out with a request *)
(* of their own, and the wrappers get_descriptor and set_configuration.  A *)
(* driver creates pipes for a device it holds, once it is configured, and  *)
(* it submits a transfer without a pipe only while some driver holds a     *)
(* device.  A transfer with a pipe id it may submit at any time and to any *)
(* address: the host has to turn down a handle that is stale or foreign.   *)
(***************************************************************************)
Occupied == {i \in 0..(MAX_PIPES - 1) : IsSome(pipes[i])}

\* A driver that has kept a device through a reset of the host has not been
\* told of it.  It goes on as the keyboard driver does: it submits set_idle
\* on a pipe, for a device it holds (Kbd::set_idle, driver.rs lines 196-212),
\* and makes no other call of its own.
AsKbd(dir, dev_addr, pipe_id, len) ==
    /\ dir = "Out" /\ len = 0
    /\ IsSome(pipe_id)
    /\ IsSome(dev_addr) /\ Unwrap(dev_addr) \in Held

DriverSubmit(dir) ==
    /\ ~panicked
    /\ SameDrivers
    /\ \E dev_addr \in Opt(Addrs), pipe_id \in Opt(PipeIds), len \in {0, MaxLen} :
          /\ Fresh \/ AsKbd(dir, dev_addr, pipe_id, len)
          /\ Becomes(Submit(Host, 0, dir, dev_addr, pipe_id, len), [name |-> "submit"])

ControlIn == DriverSubmit("In")
ControlOut == DriverSubmit("Out")

\* UsbHost::get_descriptor, called by a driver for the device descriptor
GetDescriptor ==
    /\ ~panicked
    /\ Fresh
    /\ \E dev_addr \in Opt(Addrs), pipe_id \in Opt(PipeIds),
          length \in {1, MaxLen} :
          /\ Becomes(Submitted(Host,
                                get_descriptor(Host, dev_addr, pipe_id, Device,
                                               TYPE_DEVICE, 0, length),
                                0, dev_addr, pipe_id),
                     [name |-> "submit"])

\* UsbHost::set_configuration, called by a driver
SetConfiguration ==
    /\ ~panicked
    /\ Fresh
    /\ \E dev_addr \in Addrs, pipe_id \in Opt(PipeIds), configuration \in ConfigValues :
          /\ Becomes(Submitted(Host,
                                set_configuration(Host, dev_addr, pipe_id, configuration),
                                0, Some(dev_addr), pipe_id),
                     [name |-> "submit"])

CreateControlPipe ==
    /\ ~panicked
    /\ Fresh
    /\ state.tag = "Configured"
    /\ Cardinality(Occupied) <= MaxPipes
    /\ \E dev_addr \in Held :
          Becomes(create_control_pipe(Host, dev_addr),
                  [name |-> "create_control_pipe", dev_addr |-> dev_addr])

CreateInterruptPipe ==
    /\ ~panicked
    /\ Fresh
    /\ state.tag = "Configured"
    /\ Cardinality(Occupied) <= MaxPipes
    /\ \E dev_addr \in Held, direction \in {"In", "Out"} :
          Becomes(create_interrupt_pipe(Host, dev_addr, 1, direction, 8, 10),
                  [name |-> "create_interrupt_pipe", dev_addr |-> dev_addr,
                   direction |-> direction, size |-> 8])

\* the application resets the host (lines 483-489)
Reset ==
    /\ ~panicked
    /\ Becomes(reset(Host), [name |-> "reset"])

\* after a reset of the host the application may re-initialise the drivers
\* (Kbd::new; lib.rs lines 478-479 leave it to the application): a call of
\* its own, which it may also leave out
NewDrivers ==
    /\ ~panicked
    /\ op.name = "reset"
    /\ Becomes(Host, [name |-> "new_drivers"])

Next ==
    \/ PollNoEvent
    \/ PollAttached
    \/ PollDetached
    \/ PollTransComplete
    \/ PollStall
    \/ PollResume
    \/ PollError
    \/ PollInterruptPipe
    \/ PollSof
    \/ ControlIn
    \/ ControlOut
    \/ GetDescriptor
    \/ SetConfiguration
    \/ CreateControlPipe
    \/ CreateInterruptPipe
    \/ Reset
    \/ NewDrivers

Spec == Init /\ [][Next]_vars

(***************************************************************************)
(* The pipe table.  A second specification, in which the drivers go on     *)
(* creating pipes until the 32 slots are taken: the device is brought to   *)
(* Configured by the cold plug; the drivers then create control pipes for  *)
(* it at any time, and interrupt pipes and control pipes for another       *)
(* address while at most MaxPipes slots are taken; they ask for an         *)
(* interrupt pipe once more when the table is full.  Every bus event may   *)
(* arrive and the host may be reset at any time.  The drivers submit no    *)
(* transfers of their own here.                                            *)
(***************************************************************************)
\* the next bus event of the cold plug, with the buffer and the answers of it
ColdPlugPoll ==
    /\ IsSome(step) /\ Unwrap(step) < Len(Script)
    /\ PollOn(Script[Unwrap(step) + 1].bev)
    /\ IsSome(step')

\* the table is at its beginning
FewPipes == Cardinality(Occupied) <= MaxPipes
\* every slot is taken
TableFull == Cardinality(Occupied) = MAX_PIPES

FillControlPipe ==
    /\ ~panicked
    /\ SameDrivers
    /\ state.tag = "Configured"
    /\ \E dev_addr \in Addrs :
          /\ dev_addr # state.addr => FewPipes
          /\ Becomes(create_control_pipe(Host, dev_addr),
                     [name |-> "create_control_pipe", dev_addr |-> dev_addr])

FillInterruptPipe ==
    /\ ~panicked
    /\ SameDrivers
    /\ state.tag = "Configured"
    /\ FewPipes \/ TableFull
    /\ \E direction \in {"In", "Out"} :
          Becomes(create_interrupt_pipe(Host, state.addr, 1, direction, 8, 10),
                  [name |-> "create_interrupt_pipe", dev_addr |-> state.addr,
                   direction |-> direction, size |-> 8])

PipeNext ==
    \/ ColdPlugPoll
    \/ FillControlPipe
    \/ FillInterruptPipe
    \/ PollNoEvent
    \/ PollAttached
    \/ PollDetached
    \/ PollTransComplete
    \/ PollStall
    \/ PollResume
    \/ PollError
    \/ PollInterruptPipe
    \/ PollSof
    \/ Reset
    \/ NewDrivers

PipeSpec == Init /\ [][PipeNext]_vars

(***************************************************************************)
(* The address counter.  A third specification, in which an attach/detach  *)
(* cycle is reduced to what it does to last_address: one call of           *)
(* next_address (enumeration.rs line 117).  The application may reset the  *)
(* host in between.                                                        *)
(***************************************************************************)
AssignAddress ==
    /\ ~panicked
    /\ Becomes(next_address(Host), [name |-> "next_address", from |-> last_address])

AddrSpec == Init /\ [][AssignAddress \/ Reset]_vars

(***************************************************************************)
(* The parsers and constructors of descriptor.rs and types.rs, applied to  *)
(* inputs of the caller's choosing.  They are pure: the host is untouched  *)
(* and the value returned is kept in ret.  Buffers are all byte strings of *)
(* at most MaxBuf bytes over the values 0 .. MaxBuf + 1, which holds       *)
(* every framing of a descriptor of up to MaxBuf bytes, whole or cut.      *)
(* A result depends on the input alone, so each behaviour makes one call,  *)
(* on the host as constructed.                                             *)
(***************************************************************************)
ParseDescriptor ==
    /\ op.name = "new"
    /\ \E n \in 0..MaxBuf, overflow_checks \in BOOLEAN :
          \E input \in [1..n -> 0..(MaxBuf + 1)] :
              Becomes(Ret(Host, any_descriptor(input, overflow_checks)),
                      [name |-> "any_descriptor", input |-> input,
                       overflow_checks |-> overflow_checks])

\* direction, request type (Standard, Class, Vendor, Reserved) and recipient
\* (Device, Interface, Endpoint, Other) in all combinations
NewSetupPacket ==
    /\ op.name = "new"
    /\ \E direction \in {"In", "Out"}, request_type \in 0..3, recipient \in 0..3,
          request \in {GET_DESCRIPTOR, 255}, value \in {0, 4660, 65535},
          index \in {0, 65535}, length \in {0, 27, 65535} :
           Becomes(Ret(Host, SetupPacket_new(direction, request_type, recipient,
                                             request, value, index, length)),
                   [name |-> "SetupPacket::new", direction |-> direction,
                    request_type |-> request_type, recipient |-> recipient,
                    request |-> request, value |-> value, index |-> index,
                    length |-> length])

\* the number of every endpoint address byte
EndpointNumber ==
    /\ op.name = "new"
    /\ \E address \in 0..255 :
          Becomes(Ret(Host, EndpointAddress_number(address)),
                  [name |-> "EndpointAddress::number", address |-> address])

ParseSpec == Init /\ [][ParseDescriptor \/ NewSetupPacket \/ EndpointNumber]_vars

\* every 2-byte input of bcd_16, and every value a Bcd16 can hold
ParseBcd16 ==
    /\ op.name = "new"
    /\ \E lo \in 0..255, hi \in 0..255 :
        Becomes(Ret(Host, bcd_16(<<lo, hi>>)), [name |-> "bcd_16", input |-> <<lo, hi>>])

Bcd16Digits ==
    /\ op.name = "new"
    /\ \E value \in 0..65535 :
        Becomes(Ret(Host, Bcd16_to_digits(value)), [name |-> "to_digits", value |-> value])

BcdSpec == Init /\ [][ParseBcd16 \/ Bcd16Digits]_vars

(***************************************************************************)
(* A bus that is late.  In Spec a Stall, an Error and a reset of the bus   *)
(* settle the stage that was written; here the bus may still raise the     *)
(* TransComplete of a stage after them, as long as it raises it at most    *)
(* once per stage written and never for a stage written before the last    *)
(* Detached or reset_controller.                                           *)
(***************************************************************************)
PollLateTransComplete ==
    /\ bus.owed > 0 /\ ~bus.pending
    /\ PollWith([tag |-> "TransComplete"])

LateSpec == Init /\ [][Next \/ PollLateTransComplete]_vars

(***************************************************************************)
(* Properties.  A poll is described by op: the bus event it consumed, the  *)
(* phase it started in and whether a transfer was in flight then.          *)
(***************************************************************************)
\* the last operation was a poll that consumed the bus event `tag` and returned
Polled(tag) == op.name = "poll" /\ op.bev.tag = tag /\ ~panicked

\* the pair (dev_addr, pipe_id) of the submission e is valid, by the slot the
\* pipe id named when the call was made
ValidPair(e) ==
    CASE ~IsSome(e.pipe_id) -> TRUE
      [] ~IsSome(e.dev_addr) -> FALSE
      [] OTHER -> e.slot = Some(ControlPipe(Unwrap(e.dev_addr)))

\* the operation wrote a SETUP packet
SetupsWritten == {k \in 1..Len(calls) : calls[k].op = "write_setup"}

\* detached(a) exactly once on every driver, and no other callback
DetachedToAll(a) ==
    /\ Len(cbs) = NumDrivers
    /\ \A i \in Drivers :
          cbs[i].cb = "detached" /\ cbs[i].drv = i /\ cbs[i].addr = a

\* no pipe slot holds the address a
NoPipeOf(a) ==
    \A i \in 0..(MAX_PIPES - 1) : IsSome(pipes[i]) => Unwrap(pipes[i]).dev_addr # a

\* C1: while a control transfer is in flight, a control_in / control_out with
\* a valid (dev_addr, pipe_id) returns WouldBlock, makes no bus call and changes
\* nothing; of the submissions made in one configured fan-out only the first
\* is accepted; an operation writes a SETUP only if no transfer was in flight
\* or the one in flight has just completed.
C1_SingleTransferInFlight ==
    /\ \A i \in 1..Len(subs) :
          subs[i].was_active /\ ValidPair(subs[i]) =>
              /\ subs[i].ret = WouldBlock
              /\ subs[i].ncalls = 0
              /\ subs[i].unchanged
    /\ \A i, j \in 1..Len(subs) : i < j /\ subs[i].ret = Ok => subs[j].ret # Ok
    /\ Cardinality(SetupsWritten) <= 1
    /\ SetupsWritten # {} /\ op.name = "poll" =>
          ~op.was_active \/ op.bev.tag = "TransComplete"

\* two drivers submitted during one configured fan-out: the first was accepted,
\* the second, as valid as the first, was turned down
C1_Witness ==
    /\ op.name = "poll" /\ op.from.tag = "Configuring"
    /\ Len(subs) = 2
    /\ subs[1].ret = Ok
    /\ subs[2].was_active /\ ValidPair(subs[2]) /\ subs[2].ret = WouldBlock

\* C2: a submission is rejected with InvalidPipe exactly if its pair
\* (dev_addr, pipe_id) is not valid - (None, Some) or a pipe id whose slot is
\* empty, holds an interrupt pipe or a control pipe of another address; a
\* rejected call makes no bus call and changes nothing; a valid call succeeds
\* when no transfer is in flight and returns WouldBlock otherwise.
C2_PipeValidation ==
    \A i \in 1..Len(subs) :
        LET e == subs[i]
        IN  /\ ~ValidPair(e) <=> e.ret = InvalidPipe
            /\ e.ret = InvalidPipe => e.ncalls = 0 /\ e.unchanged
            /\ ValidPair(e) /\ ~e.was_active => e.ret = Ok
            /\ ValidPair(e) /\ e.was_active => e.ret = WouldBlock

\* a control pipe of address 1 was named in a submission to address 2
C2_Witness ==
    /\ op.name = "submit"
    /\ subs[1].dev_addr = Some(2)
    /\ IsSome(subs[1].pipe_id)
    /\ subs[1].slot = Some(ControlPipe(1))
    /\ subs[1].ret = InvalidPipe

\* the address of the device a poll that started in phase st was talking to:
\* during enumeration the device still answers at address 0
AddrOf(st) == IF st.tag = "Enumeration" THEN 0 ELSE st.addr

\* C3: a poll that consumes Detached in Configured(addr, _) calls detached(addr)
\* on every driver, clears every pipe slot of addr, drops the transfer in
\* flight, leaves the host in Enumeration(WaitForDevice) and returns NoDevice.
C3_ConfiguredDetach ==
    Polled("Detached") /\ op.from.tag = "Configured" =>
        /\ DetachedToAll(op.from.addr)
        /\ NoPipeOf(op.from.addr)
        /\ active_transfer = None
        /\ state = Enumeration(WaitForDevice)
        /\ ret = NoDevice

\* C4: a poll that consumes Detached in any Discovery sub-state for address a
\* delivers detached(a) to every driver, clears all pipes, drops the descriptor
\* request in flight and returns the host to Enumeration(WaitForDevice); after
\* it a control_in with any PipeId fails with InvalidPipe.
C4_DiscoveryDetach ==
    Polled("Detached") /\ op.from.tag = "Discovery" =>
        /\ DetachedToAll(op.from.addr)
        /\ pipes = EmptyPipes
        /\ active_transfer = None
        /\ state = Enumeration(WaitForDevice)
        /\ \A a \in Opt(Addrs), p \in PipeIds :
              control_in(Host, a, Some(p), SetupPacket_new("In", 1, 1, 1, 0, 0, 0)).ret
                  = InvalidPipe

\* C5: after a poll has consumed Detached, in any phase, no transfer is in
\* flight and no pipe slot holds the address of the detached device.
C5_DetachDropsTransfer ==
    Polled("Detached") =>
        /\ active_transfer = None
        /\ NoPipeOf(AddrOf(op.from))

\* C6: a poll that consumes Detached in Configuring(addr, v) or Dormant(addr)
\* calls detached(addr) exactly once on every driver and resets the host:
\* Enumeration(WaitForDevice), no transfer in flight, all pipe slots empty, the
\* poll returns NoDevice - whether or not a Stall came for the pending
\* SET_CONFIGURATION before.
C6_ConfiguringDormantDetach ==
    /\ op.name = "poll" /\ op.bev.tag = "Detached"
    /\ op.from.tag \in {"Configuring", "Dormant"}
    =>  /\ ~panicked
        /\ DetachedToAll(op.from.addr)
        /\ state = Enumeration(WaitForDevice)
        /\ active_transfer = None
        /\ pipes = EmptyPipes
        /\ ret = NoDevice

\* the device was detached in Configuring after its SET_CONFIGURATION had stalled
C6_Witness ==
    /\ Polled("Detached") /\ op.from.tag = "Configuring"
    /\ op.was_active /\ stalled
    /\ DetachedToAll(op.from.addr)

\* C7: a poll that consumes Stall or a bus Error while a control transfer is in
\* flight cancels it: no transfer is in flight afterwards, the poll does not
\* return Busy, and a new submission with valid arguments is accepted.
C7_StallErrorCancel ==
    (Polled("Stall") \/ Polled("Error")) /\ op.was_active =>
        /\ active_transfer = None
        /\ ret # Busy
        /\ control_in(Host, None, None, SetupPacket_new("In", 1, 1, 1, 0, 0, 0)).ret = Ok

\* C8: a poll that consumes a bus Error(kind) returns BusError(kind), in every
\* phase.
C8_ErrorSurfaced ==
    Polled("Error") => ret = BusError(op.bev.kind)

\* what one driver has been told, by this poll, of the transfer with pipe id p:
\* its completed_control calls, and the BusError the poll returned
Outcomes(d, p) ==
    Cardinality({k \in 1..Len(cbs) :
                    /\ cbs[k].cb = "completed_control"
                    /\ cbs[k].drv = d
                    /\ cbs[k].pipe_id = p})
    + (IF ret.tag = "BusError" THEN 1 ELSE 0)

\* C9: when the bus answers a stage of a transfer a driver submitted with a
\* PipeId, the host being Configured and the device attached, then either the
\* transfer goes on (it is in flight and the bus owes the next answer) and
\* nothing is reported yet, or exactly one outcome is reported: never none
\* with the transfer at a standstill, never two.
C9_ExactlyOneOutcome ==
    /\ op.name = "poll" /\ ~panicked
    /\ op.bev.tag \in {"TransComplete", "Stall", "Error"}
    /\ op.from.tag = "Configured" /\ op.was_active /\ IsSome(op.pipe_id)
    /\ bus.present
    => \A d \in Drivers :
          LET n == Outcomes(d, Unwrap(op.pipe_id))
          IN  \/ n = 1
              \/ n = 0 /\ IsSome(active_transfer) /\ bus.pending

\* C10: the callbacks about an address come in the order attached,
\* descriptor, configure / configured, completed_*, detached: none of them
\* for an address the drivers were not handed by attached, or handed back by
\* detached; detached never for an address that is not attached.
C10_CallbackOrder == [][CallbackOrder(cbs', 1, [of |-> seen, ok |-> TRUE]).ok]_vars

\* the configure calls of the last operation, in order
IsConfigure(c) == c.cb = "configure"
ConfigureCalls == SelectSeq(cbs, IsConfigure)

\* the operation submitted SET_CONFIGURATION(v) to address a
SetConfigurationSent(a, v) ==
    \E k \in 2..Len(calls) :
        /\ calls[k].op = "write_setup"
        /\ calls[k].setup = SetupPacket_new("Out", Standard, Device, SET_CONFIGURATION, v, 0, 0)
        /\ \E j \in 1..(k - 1) :
              calls[j].op = "set_recipient" /\ calls[j].dev_addr = Some(a)

\* C11: configure(addr) is an election in list order: the drivers are asked
\* in turn, each once, up to the first that answers Some(v); those before it
\* answered None, those after it are not asked; v is sent in
\* SET_CONFIGURATION(v) to addr and kept in Configuring(addr, v).  If all
\* answer None the host goes to Dormant(addr) and submits nothing.  The
\* election happens only when discovery is done, and it never panics.
C11_ConfigureElection ==
    LET cfg == ConfigureCalls
        k == Len(cfg)
    IN  /\ k > 0 => op.name = "poll" /\ op.from.tag = "Discovery" /\ ~panicked
        /\ op.name = "poll" /\ op.from.tag = "Discovery" /\ ~panicked =>
              LET a == op.from.addr
              IN  /\ \A i \in 1..k : cfg[i].drv = i /\ cfg[i].addr = a
                  /\ \A i \in 1..(k - 1) : cfg[i].answer = None
                  /\ k > 0 /\ cfg[k].answer = None => k = NumDrivers
                  /\ state.tag = "Discovery" => k = 0
                  /\ state.tag = "Configuring" =>
                        /\ k > 0 /\ cfg[k].answer = Some(state.config)
                        /\ state.addr = a
                        /\ SetConfigurationSent(a, state.config)
                        /\ active_transfer =
                              Some([pipe_id |-> None, transfer |-> new_control_out(0)])
                  /\ state.tag = "Dormant" /\ ret # DiscoveryError(a) =>
                        /\ k = NumDrivers /\ cfg[k].answer = None
                        /\ active_transfer = None
                        /\ SetupsWritten = {}
                  /\ k > 0 =>
                        state.tag = (IF IsSome(cfg[k].answer) THEN "Configuring" ELSE "Dormant")

\* the first driver declined and the second won the election with value 2
C11_Witness ==
    /\ op.name = "poll" /\ op.from.tag = "Discovery"
    /\ Len(ConfigureCalls) = 2
    /\ ConfigureCalls[1].answer = None
    /\ ConfigureCalls[2].answer = Some(2)
    /\ state = Configuring(1, 2)

\* the buffer does not start with a whole descriptor: the length byte is
\* missing, below the two bytes of the header, or beyond the bytes present
BadFraming(data) ==
    \/ Len(data) < 2
    \/ data[1] < 2
    \/ Len(data) < data[1]

\* no configure and no configured call was made
NoConfigureCalls ==
    \A k \in 1..Len(cbs) : cbs[k].cb \notin {"configure", "configured"}

\* C12: when the descriptor a discovery step receives does not parse, the
\* poll returns DiscoveryError(addr) and leaves the host in Dormant(addr), no
\* transfer in flight, no request submitted, no configure / configured call;
\* polls in Dormant never return DiscoveryError again and make no such call:
\* they return Idle unless a driver has a transfer in flight.
C12_ParseErrorDormant ==
    /\ op.name = "poll" /\ op.from.tag = "Discovery" /\ op.read /\ BadFraming(op.data) =>
          /\ ~panicked
          /\ ret = DiscoveryError(op.from.addr)
          /\ state = Dormant(op.from.addr)
          /\ active_transfer = None
          /\ SetupsWritten = {}
          /\ NoConfigureCalls
    /\ op.name = "poll" /\ op.from.tag = "Dormant" /\ op.bev.tag # "Detached" =>
          /\ ~panicked
          /\ state = op.from
          /\ ret = (IF IsSome(active_transfer) THEN Busy ELSE Idle)
          /\ NoConfigureCalls

\* the script has been followed for k events, this operation being the k-th
At(k) == step = Some(k)

\* the places of the cold plug: the last Sof after the first and after the
\* second reset, the delivery of the full configuration, and the end
LastSof0 == 2 + (RESET_0_DELAY + 1)
LastSof1 == LastSof0 + 3 + 1 + (RESET_1_DELAY + 1)
Elected == LastSof1 + 2 + 3 + 3 + 3
ColdPlugEnd == Len(Script)

\* the Sof events consumed in Delay0 / Delay1 since the reset, this one
\* included: the delay starts at RESET_x_DELAY and only a Sof lowers it
SofsSinceReset ==
    (IF op.from.sub.tag = "Delay0" THEN RESET_0_DELAY ELSE RESET_1_DELAY) - op.from.sub.n + 1

\* C13 as stated: 10 Sof events after each of the two resets are enough for
\* the host to have submitted the transfer whose completion follows.
C13_TenSofsEnough ==
    /\ op.name = "poll" /\ op.bev.tag = "Sof" /\ op.from.tag = "Enumeration"
    /\ op.from.sub.tag \in {"Delay0", "Delay1"}
    /\ SofsSinceReset = 10
    => /\ state.tag = "Enumeration"
       /\ state.sub.tag \in {"WaitDescriptor", "WaitSetAddress"}
       /\ SetupsWritten # {}

\* C13, amended: the cold plug with RESET_x_DELAY + 1 = 11 Sof events after
\* each reset never panics; the Sof events before the 11th leave the host
\* waiting with nothing submitted, the 11th submits GET_DESCRIPTOR (8 bytes)
\* resp. SET_ADDRESS(1); configure is called in one poll only, where exactly
\* one call answers Some(X); the run ends in Configured(1, X).
C13_ColdPlug ==
    /\ IsSome(step) => ~panicked
    /\ \A k \in 3..(LastSof0 - 1) :
          At(k) => state.sub.tag = "Delay0" /\ active_transfer = None /\ SetupsWritten = {}
    /\ At(LastSof0) =>
          /\ state = Enumeration(WaitDescriptor) /\ IsSome(active_transfer)
          /\ \E k \in SetupsWritten :
                calls[k].setup = SetupPacket_new("In", Standard, Device, GET_DESCRIPTOR,
                                                 TYPE_DEVICE * 256, 0, 8)
    /\ \A k \in (LastSof0 + 5)..(LastSof1 - 1) :
          At(k) => state.sub.tag = "Delay1" /\ active_transfer = None /\ SetupsWritten = {}
    /\ At(LastSof1) =>
          /\ state = Enumeration(WaitSetAddress("Full", 1)) /\ IsSome(active_transfer)
          /\ \E k \in SetupsWritten :
                calls[k].setup = SetupPacket_new("Out", Standard, Device, SET_ADDRESS, 1, 0, 0)
    /\ \A k \in 0..ColdPlugEnd : At(k) /\ k # Elected => ConfigureCalls = <<>>
    /\ At(Elected) =>
          /\ state = Configuring(1, ColdPlugValue)
          /\ \E k \in 1..Len(ConfigureCalls) :
                /\ ConfigureCalls[k].answer = Some(ColdPlugValue)
                /\ \A j \in 1..Len(ConfigureCalls) : j # k => ConfigureCalls[j].answer = None
    /\ At(ColdPlugEnd) =>
          /\ state = Configured(1, ColdPlugValue)
          /\ \A d \in Drivers :
                \E k \in 1..Len(cbs) :
                   /\ cbs[k].cb = "configured" /\ cbs[k].drv = d
                   /\ cbs[k].addr = 1 /\ cbs[k].config = ColdPlugValue
          \* a driver may have submitted a transfer from `configured`
          /\ ret = (IF IsSome(active_transfer) THEN Busy ELSE Idle)

\* the cold plug has run to its end, and no driver has submitted a transfer
C13_Witness ==
    /\ At(ColdPlugEnd)
    /\ state = Configured(1, ColdPlugValue)
    /\ ret = Idle

\* the arguments a control_in / control_out would be valid with now: no pipe,
\* or a slot holding a control pipe of the address given
ValidArgsNow ==
    {a \in [dev_addr : Opt(Addrs), pipe_id : Opt(PipeIds)] :
        \/ ~IsSome(a.pipe_id)
        \/ /\ IsSome(a.dev_addr)
           /\ pipes[Unwrap(a.pipe_id)] = Some(ControlPipe(Unwrap(a.dev_addr)))}

\* what a control_in / control_out with arguments a would return now
SubmitResultsNow(a) ==
    {Submit(Host, 0, dir, a.dev_addr, a.pipe_id, len).ret :
        dir \in {"In", "Out"}, len \in 0..MaxLen}

\* C14: what poll returns agrees with the host at the end of the call:
\* NoDevice only in Enumeration(WaitForDevice); Idle only with a device
\* attached and no transfer in flight, and then a control_in / control_out
\* with valid arguments is accepted; Busy only with a transfer in flight,
\* and then such a call returns WouldBlock.
C14_PollResult ==
    op.name = "poll" /\ ~panicked =>
       /\ ret = NoDevice => state = Enumeration(WaitForDevice)
       /\ ret = Idle =>
             /\ bus.present
             /\ active_transfer = None
             /\ \A a \in ValidArgsNow : SubmitResultsNow(a) = {Ok}
       /\ ret = Busy =>
             /\ IsSome(active_transfer)
             /\ \A a \in ValidArgsNow : SubmitResultsNow(a) = {WouldBlock}

\* the host was reset in the next operation: by the application, or by poll
\* (lib.rs lines 368, 454)
HostResetNext == \E k \in 1..Len(calls') : calls'[k].op = "reset_controller"

\* the next operation is a poll that consumes Detached
DetachedNext == op'.name = "poll" /\ op'.bev.tag = "Detached"

\* the next operation is a pipe creation that returns PipeId p
CreatedNext(p) ==
    /\ op'.name \in {"create_control_pipe", "create_interrupt_pipe"}
    /\ ret' = Some(p)

\* C15: a slot that holds a pipe of device a keeps holding that very pipe
\* (kind, dev_addr, bus_ref) over every operation, except a host reset and a
\* poll that consumes Detached while a is the device of the host; a creation
\* returns the index of a slot that was empty and holds the new pipe after,
\* so no PipeId is handed out while the pipe it names is live.
C15_PipeStable ==
    [][\A p \in 0..(MAX_PIPES - 1) :
          /\ IsSome(pipes[p]) /\ pipes'[p] # pipes[p] =>
                \/ HostResetNext
                \/ DetachedNext /\ AddrOf(op'.from) = Unwrap(pipes[p]).dev_addr
          /\ CreatedNext(p) =>
                /\ ~IsSome(pipes[p])
                /\ IsSome(pipes'[p])
                /\ Unwrap(pipes'[p]).dev_addr = op'.dev_addr
                /\ Unwrap(pipes'[p]).kind =
                      (IF op'.name = "create_control_pipe" THEN "Control" ELSE "Interrupt")
      ]_vars

\* a control pipe was created in slot 2, next to a control pipe in slot 0
\* and an interrupt pipe in slot 1
C15_Witness ==
    /\ op.name = "create_control_pipe" /\ ret = Some(2)
    /\ IsSome(pipes[0]) /\ Unwrap(pipes[0]).kind = "Control"
    /\ IsSome(pipes[1]) /\ Unwrap(pipes[1]).kind = "Interrupt"

\* the slots holding an interrupt pipe with bus reference r
InterruptSlots(r) ==
    {i \in Occupied : Unwrap(pipes[i]).kind = "Interrupt" /\ Unwrap(pipes[i]).bus_ref = r}

\* C16: a poll that consumes InterruptPipe(r) in Configured, r being recorded
\* in an interrupt slot, calls completed_in (IN pipe) resp. completed_out
\* (OUT pipe) once on every driver, in list order, with the slot's index and
\* dev_addr and a buffer of the slot's size, all of them before any bus call,
\* and then makes one bus call, pipe_continue(r); when no slot records r the
\* poll makes no callback and still calls pipe_continue(r) once.  No other
\* operation calls completed_in / completed_out or pipe_continue.
C16_InterruptDispatch ==
    /\ Polled("InterruptPipe") /\ op.from.tag = "Configured" =>
          /\ calls = <<[op |-> "pipe_continue", bus_ref |-> op.bev.ref]>>
          /\ state = op.from
          /\ \A m \in InterruptSlots(op.bev.ref) :
                LET pipe == Unwrap(pipes[m])
                IN  /\ Len(cbs) = NumDrivers
                    /\ \A i \in Drivers :
                          /\ cbs[i].cb = (IF pipe.direction = "In" THEN "completed_in"
                                          ELSE "completed_out")
                          /\ cbs[i].drv = i
                          /\ cbs[i].addr = pipe.dev_addr
                          /\ cbs[i].pipe_id = m
                          /\ cbs[i].size = pipe.size
                          /\ cbs[i].seq = 0
          /\ InterruptSlots(op.bev.ref) = {} => cbs = <<>>
    /\ ~(op.name = "poll" /\ op.bev.tag = "InterruptPipe" /\ op.from.tag = "Configured") =>
          /\ \A k \in 1..Len(cbs) : cbs[k].cb \notin {"completed_in", "completed_out"}
          /\ \A k \in 1..Len(calls) : calls[k].op # "pipe_continue"

\* an OUT interrupt pipe, in slot 1 behind the control pipe of its driver, was
\* dispatched to the drivers
C16_Witness ==
    /\ Polled("InterruptPipe") /\ op.from.tag = "Configured"
    /\ InterruptSlots(op.bev.ref) = {1}
    /\ Len(cbs) = NumDrivers /\ cbs[NumDrivers].cb = "completed_out"

\* the release_interrupt_pipe(r) calls of the next operation
ReleasesNext(r) ==
    {k \in 1..Len(calls') :
        calls'[k].op = "release_interrupt_pipe" /\ calls'[k].bus_ref = r}

\* C17: an operation that frees the slot of an interrupt pipe (the device is
\* detached, the host is reset) calls release_interrupt_pipe(bus_ref) exactly
\* once for that pipe.
C17_ReleaseOnFree ==
    [][\A p \in 0..(MAX_PIPES - 1) :
          /\ IsSome(pipes[p]) /\ Unwrap(pipes[p]).kind = "Interrupt"
          /\ pipes'[p] # pipes[p]
          => Cardinality(ReleasesNext(Unwrap(pipes[p]).bus_ref)) = 1
      ]_vars

\* the next operation is create_interrupt_pipe
CreatesInterruptNext == op'.name = "create_interrupt_pipe"

\* C18: create_interrupt_pipe returns Some(id) only if the bus allocated a
\* pipe and slot id was free, and then slot id records exactly the dev_addr,
\* bus_ref, direction, size and ptr of the pipe, the other slots staying as
\* they were; if the bus allocates but all 32 slots are taken, the bus pipe
\* is released again before None is returned and the table is unchanged; if
\* the bus refuses, None is returned and nothing changes.
C18_CreateInterruptPipe ==
    [][CreatesInterruptNext =>
         LET got == bus_create_interrupt_pipe(bus)
             free == (0..(MAX_PIPES - 1)) \ Occupied
         IN  /\ ~panicked'
             /\ state' = state /\ active_transfer' = active_transfer
             /\ IsSome(got) /\ free # {} =>
                   LET bp == Unwrap(got)
                   IN  /\ IsSome(ret') /\ Unwrap(ret') \in free
                       /\ pipes' = [pipes EXCEPT ![Unwrap(ret')] =
                                       Some(InterruptPipe(op'.dev_addr, bp.bus_ref,
                                                          op'.direction, op'.size, bp.ptr))]
                       /\ Len(calls') = 1 /\ calls'[1].op = "create_interrupt_pipe"
                       /\ bus'.refs = bus.refs \cup {bp.bus_ref}
             /\ IsSome(got) /\ free = {} =>
                   /\ ret' = None /\ pipes' = pipes
                   /\ Len(calls') = 2 /\ calls'[1].op = "create_interrupt_pipe"
                   /\ calls'[2] = [op |-> "release_interrupt_pipe",
                                   bus_ref |-> Unwrap(got).bus_ref]
                   /\ bus' = bus
             /\ ~IsSome(got) =>
                   /\ ret' = None /\ pipes' = pipes /\ calls' = <<>> /\ bus' = bus
      ]_vars

\* the bus had a pipe to give but the 32 slots were taken: released again
C18_Witness ==
    /\ op.name = "create_interrupt_pipe" /\ ret = None
    /\ TableFull
    /\ Len(calls) = 2 /\ calls[2].op = "release_interrupt_pipe"

\* C19: create_control_pipe(dev_addr) stores Control{dev_addr} in the empty
\* slot of lowest index and returns that index, every other slot staying as
\* it was; it returns None exactly when all 32 slots are taken, and then it
\* changes nothing.  It makes no bus call and no callback.
C19_CreateControlPipe ==
    [][op'.name = "create_control_pipe" =>
         LET free == (0..(MAX_PIPES - 1)) \ Occupied
         IN  /\ ~panicked'
             /\ state' = state /\ active_transfer' = active_transfer
             /\ last_address' = last_address /\ bus' = bus
             /\ calls' = <<>> /\ cbs' = <<>>
             /\ (ret' = None) <=> (free = {})
             /\ free = {} => pipes' = pipes
             /\ free # {} =>
                   LET id == CHOOSE i \in free : \A j \in free : i <= j
                   IN  /\ ret' = Some(id)
                       /\ pipes' = [pipes EXCEPT ![id] = Some(ControlPipe(op'.dev_addr))]
      ]_vars

\* a control pipe was asked for with the 32 slots taken
C19_Witness ==
    /\ op.name = "create_control_pipe" /\ ret = None
    /\ \A i \in 0..(MAX_PIPES - 1) : IsSome(pipes[i])

\* a control pipe went into the hole at slot 0, below a pipe of another address
C19_HoleFilled ==
    /\ op.name = "create_control_pipe" /\ ret = Some(0)
    /\ IsSome(pipes[1]) /\ Unwrap(pipes[1]).dev_addr # op.dev_addr
    /\ ~IsSome(pipes[2])

\* the poll consumed the TransComplete of the last stage of the transfer in
\* flight: the transfer is gone (no callback of the model submits another)
CompletedTransfer ==
    /\ Polled("TransComplete") /\ op.was_active
    /\ active_transfer = None

\* C20: in Configured(addr, _), the poll that completes a control transfer
\* submitted with pipe_id Some(p) calls completed_control(addr, p, data) once
\* on every driver, in list order, with data = Some(the bytes received) for an
\* IN transfer and None for an OUT transfer; the poll that completes a
\* transfer submitted with pipe_id None makes no callback; a TransComplete
\* that does not complete the transfer makes none either.
C20_CompletedControl ==
    /\ CompletedTransfer /\ op.from.tag = "Configured" /\ IsSome(op.pipe_id) =>
          /\ Len(cbs) = NumDrivers
          /\ \A i \in Drivers :
                /\ cbs[i].cb = "completed_control"
                /\ cbs[i].drv = i
                /\ cbs[i].addr = op.from.addr
                /\ cbs[i].pipe_id = Unwrap(op.pipe_id)
                /\ cbs[i].data = (IF op.dir = "In" THEN Some(op.data) ELSE None)
    /\ CompletedTransfer /\ op.from.tag = "Configured" /\ ~IsSome(op.pipe_id) => cbs = <<>>
    /\ Polled("TransComplete") /\ op.from.tag = "Configured" /\ ~CompletedTransfer =>
          cbs = <<>>

\* an IN transfer on a pipe completed with a byte of data
C20_Witness ==
    /\ CompletedTransfer /\ op.from.tag = "Configured"
    /\ IsSome(op.pipe_id) /\ op.dir = "In" /\ op.data # <<>>
    /\ Len(cbs) = NumDrivers

\* an OUT transfer on a pipe completed
C20_OutCompleted ==
    /\ CompletedTransfer /\ op.from.tag = "Configured"
    /\ IsSome(op.pipe_id) /\ op.dir = "Out" /\ Len(cbs) = NumDrivers

\* a transfer without a pipe completed
C20_NoPipeCompleted ==
    /\ CompletedTransfer /\ op.from.tag = "Configured" /\ ~IsSome(op.pipe_id)

\* C21: discovery fetches every configuration in two steps; when the full
\* descriptor of configuration n has been processed in ConfigDesc(n, M) with
\* n + 1 < M, the host has requested the 9 byte header of configuration n + 1
\* and is in ConfigDescLen(n + 1, M).
C21_EveryConfiguration ==
    /\ Polled("TransComplete") /\ op.from.tag = "Discovery" /\ op.read
    /\ op.from.sub.tag = "ConfigDesc" /\ op.from.sub.n + 1 < op.from.sub.m
    /\ state.tag = "Discovery"
    => /\ state.sub = ConfigDescLen(op.from.sub.n + 1, op.from.sub.m)
       /\ \E k \in SetupsWritten :
             calls[k].setup = SetupPacket_new("In", Standard, Device, GET_DESCRIPTOR,
                                              TYPE_CONFIGURATION * 256 + op.from.sub.n + 1,
                                              0, 9)

\* C22: every address next_address hands out is a non-zero 7-bit value
C22_SevenBitAddress ==
    op.name = "next_address" => ret \in 1..127

\* C23: with 254 addresses assigned since construction or the last reset
\* (the counter stands at 254), the next address assigned is 1 again, as it
\* is for a 7-bit counter that skips 0 (period 127, 254 = 2 * 127).
C23_WrapAfter254 ==
    op.name = "next_address" /\ op.from = 254 => ret = 1

\* C24: addresses are not reused before the counter overflows: as long as
\* the application does not reset the host, no poll moves the address counter
\* back, whatever the phase a device is detached in, so that the address of
\* the next device is above those of the devices before it.
C24_NoAddressReuse ==
    [][op'.name = "poll" /\ last_address' # last_address =>
          last_address' > last_address \/ last_address = 255
      ]_vars

\* C25: a poll that consumes a Stall or a bus Error for the transfer in
\* flight during enumeration, discovery or configuring leaves the host in
\* Dormant.
C25_ErrorToDormant ==
    /\ Polled("Stall") \/ Polled("Error")
    /\ op.was_active
    /\ op.from.tag \in {"Enumeration", "Discovery", "Configuring"}
    => state.tag = "Dormant"

\* the buffer input starts a descriptor whose length byte announces more bytes
\* than the buffer holds
Truncated(input) == Len(input) >= 2 /\ input[1] >= 2 /\ Len(input) < input[1]

\* C26: any_descriptor accepts a truncated descriptor: when the buffer holds
\* fewer bytes than the length byte announces, the parse succeeds and yields
\* the length byte, the type byte and as data the bytes that are present.
C26_AcceptsTruncation ==
    op.name = "any_descriptor" /\ Truncated(op.input)
        => /\ ret.ok
           /\ ret.length = op.input[1]
           /\ ret.descriptor_type = op.input[2]
           /\ ret.data = Drop(op.input, 2)

\* C27: SetupPacket::new puts the recipient in bits 0..4 of request_type, the
\* request type in bits 5..6 and the direction in bit 7 (1 for IN, 0 for OUT),
\* for every combination of the three, and copies request, value, index and
\* length unchanged; (In, Standard, Device, GET_DESCRIPTOR, 0x1234, 0, 27)
\* gives request_type 0x80 and request 0x06.
C27_SetupPacketNew ==
    op.name = "SetupPacket::new"
        => /\ ret.request_type \in 0..255
           /\ ret.request_type % 32 = op.recipient
           /\ (ret.request_type \div 32) % 4 = op.request_type
           /\ ret.request_type \div 128 = (IF op.direction = "In" THEN 1 ELSE 0)
           /\ ret.request = op.request
           /\ ret.value = op.value
           /\ ret.index = op.index
           /\ ret.length = op.length
           /\ (op.direction = "In" /\ op.request_type = Standard /\ op.recipient = Device
                   /\ op.request = GET_DESCRIPTOR
               => ret.request_type = 128 /\ ret.request = 6)

\* the packet of test_setup_new has been built
C27_Witness ==
    /\ op = [name |-> "SetupPacket::new", direction |-> "In", request_type |-> Standard,
             recipient |-> Device, request |-> GET_DESCRIPTOR, value |-> 4660,
             index |-> 0, length |-> 27]
    /\ ret = [request_type |-> 128, request |-> 6, value |-> 4660, index |-> 0, length |-> 27]

\* the buffer input starts with a whole descriptor: a length byte L >= 2, a
\* type byte and at least L - 2 further bytes
WellFormed(input) == Len(input) >= 2 /\ input[1] >= 2 /\ Len(input) >= input[1]

\* C28: on every buffer that starts with a well-formed descriptor,
\* any_descriptor returns the length byte L, the type byte, as data exactly
\* the L - 2 bytes that follow them and as remainder exactly the bytes after
\* the first L bytes.
C28_Framing ==
    op.name = "any_descriptor" /\ WellFormed(op.input)
        => /\ ret.ok /\ ~ret.panic
           /\ ret.length = op.input[1]
           /\ ret.descriptor_type = op.input[2]
           /\ ret.data = SubSeq(op.input, 3, op.input[1])
           /\ ret.rest = SubSeq(op.input, op.input[1] + 1, Len(op.input))

\* a descriptor of 3 bytes followed by one more byte has been framed
C28_Witness ==
    /\ op.name = "any_descriptor" /\ op.input = <<3, 5, 4, 1>>
    /\ ret.ok /\ ret.data = <<4>> /\ ret.rest = <<1>>

\* C29: for every 16-bit value v, to_digits returns the four nibbles of v from
\* most to least significant, is_valid(v) is true iff all four are at most 9,
\* and bcd_16 accepts a little-endian 2-byte input iff its value is valid,
\* returning that value and leaving nothing of the input.
C29_Bcd16 ==
    /\ op.name = "to_digits"
        => /\ Len(ret) = 4
           /\ \A i \in 1..4 : ret[i] \in 0..15
           /\ op.value = ret[1] * 4096 + ret[2] * 256 + ret[3] * 16 + ret[4]
           /\ Bcd16_is_valid(op.value) <=> \A i \in 1..4 : ret[i] <= 9
    /\ op.name = "bcd_16"
        => LET v == op.input[1] + 256 * op.input[2]
           IN  /\ ret.ok <=> \A i \in 1..4 : Bcd16_to_digits(v)[i] <= 9
               /\ ret.ok => ret.value = v /\ ret.rest = <<>>

\* the input of test_bcd_16 has been parsed to 0x0210
C29_Witness ==
    op.name = "bcd_16" /\ op.input = <<16, 2>> /\ ret.ok /\ ret.value = 528

\* C30: no submission the host makes itself (GET_DESCRIPTOR and SET_ADDRESS of
\* enumeration, GET_DESCRIPTOR of discovery, SET_CONFIGURATION) finds a
\* transfer in flight: none returns WouldBlock, so no poll panics in the
\* unwrap of one, whatever bus events came before.
C30_SubmissionsFindBusIdle ==
    op.name = "poll" => ~(panicked /\ ret = WouldBlock)

\* the transfer in flight
InFlight == Unwrap(active_transfer).transfer

\* the step is a poll that consumes TransComplete while a control transfer of
\* direction dir is in flight at the given stage
StageStep(dir, stage) ==
    /\ IsSome(active_transfer) /\ InFlight.dir = dir /\ InFlight.stage = stage
    /\ op'.name = "poll" /\ op'.bev.tag = "TransComplete" /\ ~panicked'

\* the step makes the bus call c and no other, keeps the transfer in flight at
\* the next stage, and reports nothing: no callback, no change of phase
Advances(stage, c) ==
    /\ calls' = <<c>>
    /\ active_transfer' = Some([Unwrap(active_transfer) EXCEPT !.transfer.stage = stage])
    /\ cbs' = <<>>
    /\ state' = state

\* the step ends the transfer: nothing is in flight after it, unless the
\* handler of the completion submitted the next transfer in the same poll
Retires ==
    \/ active_transfer' = None
    \/ /\ IsSome(active_transfer')
       /\ Unwrap(active_transfer').transfer.stage = "WaitSetup"
       /\ \E k \in 1..Len(calls') : calls'[k].op = "write_setup"

\* the completion is handed on with the pipe id of the transfer: in
\* Configured to every driver, in enumeration and discovery to the phase
Reports(cb) ==
    /\ state.tag = "Configured" /\ IsSome(Unwrap(active_transfer).pipe_id)
        => /\ Len(cbs') = NumDrivers
           /\ \A i \in Drivers : /\ cbs'[i].cb = cb
                                 /\ cbs'[i].pipe_id = Unwrap(Unwrap(active_transfer).pipe_id)
    /\ state.tag = "Discovery" => state' # state

\* C31: a control IN transfer of length L takes three TransComplete events:
\* the first makes the host call write_data_in(L, toggle 1) (WaitData), the
\* second a zero-length write_data_out (WaitConfirm), and only the third
\* completes it (ControlInData with its pipe id); until then the transfer
\* stays in flight and nothing is reported.
C31_ControlInStages ==
    [][/\ StageStep("In", "WaitSetup")
           => Advances("WaitData", [op |-> "write_data_in", length |-> InFlight.length,
                                    pid |-> TRUE])
       /\ StageStep("In", "WaitData")
           => Advances("WaitConfirm", [op |-> "write_data_out", len |-> 0])
       /\ StageStep("In", "WaitConfirm")
           => /\ Retires
              /\ Reports("completed_control")
              /\ state = Enumeration(WaitDescriptor) => state' = Enumeration(Reset1)]_vars

\* the GET_DESCRIPTOR of enumeration has completed on its third TransComplete
C31_Witness ==
    /\ Polled("TransComplete") /\ op.was_active /\ op.dir = "In"
    /\ op.from = Enumeration(WaitDescriptor)
    /\ state = Enumeration(Reset1) /\ active_transfer = None

\* the status stage of a control OUT transfer
StatusIn == [op |-> "write_data_in", length |-> 0, pid |-> TRUE]

\* C32: a control OUT transfer without data goes from SETUP to the status
\* stage: the first TransComplete makes the host call write_data_in(0, toggle
\* 1) and the second completes it.  With data, the data is loaded with
\* prepare_data_out before write_setup, the first TransComplete makes the host
\* call write_data_out_prepared, the second the status stage write_data_in(0,
\* toggle 1), and the third completes it (ControlOutComplete with its pipe id).
C32_ControlOutStages ==
    [][/\ StageStep("Out", "WaitSetup") /\ InFlight.length = 0
           => Advances("WaitConfirm", StatusIn)
       /\ StageStep("Out", "WaitSetup") /\ InFlight.length > 0
           => Advances("WaitData", [op |-> "write_data_out_prepared"])
       /\ StageStep("Out", "WaitData")
           => InFlight.length > 0 /\ Advances("WaitConfirm", StatusIn)
       /\ StageStep("Out", "WaitConfirm")
           => /\ Retires
              /\ Reports("completed_control")
              /\ state.tag = "Enumeration" /\ state.sub.tag = "WaitSetAddress"
                    => state'.tag = "Discovery"
       /\ op'.name = "submit" /\ calls' # <<>> /\ Unwrap(active_transfer').transfer.dir = "Out"
           => \E i, j \in 1..Len(calls') :
                 /\ i < j
                 /\ calls'[i] = [op |-> "prepare_data_out",
                                 len |-> Unwrap(active_transfer').transfer.length]
                 /\ calls'[j].op = "write_setup"
                 /\ calls'[j].setup.length = Unwrap(active_transfer').transfer.length]_vars

\* the second TransComplete of an OUT transfer with data has started its
\* status stage
C32_Witness ==
    /\ Polled("TransComplete") /\ op.was_active /\ op.dir = "Out"
    /\ IsSome(active_transfer) /\ InFlight.length > 0 /\ InFlight.stage = "WaitConfirm"
    /\ calls = <<StatusIn>>

\* the last operation was a poll in the enumeration state es that consumed the
\* bus event `tag`
EnumStep(es, tag) ==
    op.name = "poll" /\ op.from.tag = "Enumeration" /\ op.from.sub.tag = es /\ op.bev.tag = tag

\* the poll submitted the control transfer `setup` to address 0 without a pipe
SubmittedToZero(setup) ==
    /\ ~panicked
    /\ calls = <<[op |-> "set_recipient", dev_addr |-> None, endpoint |-> 0,
                  transfer_type |-> "Control"]>>
               \o (IF setup.request_type = 0 THEN <<[op |-> "prepare_data_out", len |-> 0]>>
                   ELSE <<>>)
               \o <<[op |-> "write_setup", setup |-> setup]>>
    /\ IsSome(active_transfer) /\ InFlight.stage = "WaitSetup"

\* C33: enumeration follows the two-reset sequence: Attached in WaitForDevice
\* resets the bus (Reset0); the next Attached enables SOF and the SOF interrupt
\* (Delay0(10)); a Sof in Delay0(n) gives Delay0(n - 1) for n > 0 and for n = 0
\* submits GET_DESCRIPTOR(device, index 0, 8 bytes) to address 0
\* (WaitDescriptor); its completion resets the bus again (Reset1); the next
\* Attached(speed) gives Delay1(speed, 10), which counts down the same way and
\* at n = 0 takes the next address and submits SET_ADDRESS to address 0
\* (WaitSetAddress).  No SET_ADDRESS is sent before the second reset and no
\* GET_DESCRIPTOR before the first.
C33_TwoResetSequence ==
    /\ EnumStep("WaitForDevice", "Attached")
         => calls = <<[op |-> "reset_bus"]>> /\ state = Enumeration(Reset0)
    /\ EnumStep("Reset0", "Attached")
         => /\ calls = <<[op |-> "enable_sof"], [op |-> "interrupt_on_sof", on |-> TRUE]>>
            /\ state = Enumeration(Delay0(10))
    /\ EnumStep("Delay0", "Sof") /\ op.from.sub.n > 0
         => calls = <<>> /\ state = Enumeration(Delay0(op.from.sub.n - 1))
    /\ EnumStep("Delay0", "Sof") /\ op.from.sub.n = 0
         => /\ SubmittedToZero(SetupPacket_new("In", Standard, Device, GET_DESCRIPTOR,
                                               TYPE_DEVICE * 256, 0, 8))
            /\ state = Enumeration(WaitDescriptor)
    /\ EnumStep("WaitDescriptor", "TransComplete") /\ op.was_active /\ ~IsSome(active_transfer)
         => calls = <<[op |-> "reset_bus"]>> /\ state = Enumeration(Reset1)
    /\ EnumStep("Reset1", "Attached")
         => /\ calls = <<[op |-> "enable_sof"]>>
            /\ state = Enumeration(Delay1(op.bev.speed, 10))
    /\ EnumStep("Delay1", "Sof") /\ op.from.sub.n > 0
         => calls = <<>> /\ state = Enumeration(Delay1(op.from.sub.speed, op.from.sub.n - 1))
    /\ EnumStep("Delay1", "Sof") /\ op.from.sub.n = 0
         => /\ last_address # 0
            /\ SubmittedToZero(SetupPacket_new("Out", Standard, Device, SET_ADDRESS,
                                               last_address, 0, 0))
            /\ state = Enumeration(WaitSetAddress(op.from.sub.speed, last_address))
    /\ op.name = "poll" /\ op.from.tag = "Enumeration"
         => \A k \in SetupsWritten :
               \/ /\ calls[k].setup.request = GET_DESCRIPTOR
                  /\ op.from.sub = Delay0(0)
               \/ /\ calls[k].setup.request = SET_ADDRESS
                  /\ op.from.sub.tag = "Delay1" /\ op.from.sub.n = 0
               \/ /\ calls[k].setup.request = GET_DESCRIPTOR
                  /\ op.from.sub.tag = "WaitSetAddress" /\ state.tag = "Discovery"

\* C34: the poll in which SET_ADDRESS completes in WaitSetAddress(speed, addr)
\* turns the SOF interrupt off, calls attached(addr, speed) once on every
\* driver, in list order, submits GET_DESCRIPTOR(device, index 0, 18 bytes) to
\* addr and leaves the host in Discovery(addr, DeviceDesc) with that transfer
\* in flight; speed is the one of the Attached event after the second reset.
C34_AddressAssigned ==
    [][/\ StageStep("Out", "WaitConfirm") /\ state.tag = "Enumeration"
          /\ state.sub.tag = "WaitSetAddress"
           => /\ calls' = <<[op |-> "interrupt_on_sof", on |-> FALSE],
                            [op |-> "set_recipient", dev_addr |-> Some(state.sub.addr),
                             endpoint |-> 0, transfer_type |-> "Control"],
                            [op |-> "write_setup",
                             setup |-> SetupPacket_new("In", Standard, Device, GET_DESCRIPTOR,
                                                       TYPE_DEVICE * 256, 0, 18)]>>
              /\ Len(cbs') = NumDrivers
              /\ \A i \in Drivers :
                    cbs'[i] = [cb |-> "attached", drv |-> i, addr |-> state.sub.addr,
                               speed |-> state.sub.speed, seq |-> 1]
              /\ state' = Discovery(state.sub.addr, DeviceDesc)
              /\ active_transfer' = Some([pipe_id |-> None, transfer |-> new_control_in(18)])
       /\ state.tag = "Enumeration" /\ state'.tag = "Enumeration" /\ op'.name = "poll"
           => /\ state.sub.tag = "Reset1" /\ state'.sub.tag = "Delay1"
                    => state'.sub.speed = op'.bev.speed
              /\ state.sub.tag = "Delay1" /\ state'.sub.tag \in {"Delay1", "WaitSetAddress"}
                    => state'.sub.speed = state.sub.speed
              /\ state.sub.tag = "WaitSetAddress" /\ state'.sub.tag = "WaitSetAddress"
                    => state'.sub = state.sub
              /\ state'.sub.tag = "Delay1" => state.sub.tag \in {"Reset1", "Delay1"}
              /\ state'.sub.tag = "WaitSetAddress"
                    => state.sub.tag \in {"Delay1", "WaitSetAddress"}]_vars

\* a low-speed device has got its address and discovery has begun
C34_Witness ==
    /\ Polled("TransComplete") /\ op.from.tag = "Enumeration"
    /\ op.from.sub = WaitSetAddress("Low", 1)
    /\ state = Discovery(1, DeviceDesc)
    /\ Len(cbs) = NumDrivers /\ cbs[NumDrivers].cb = "attached" /\ cbs[NumDrivers].speed = "Low"

\* C35: in Configuring(addr, v) the poll in which SET_CONFIGURATION completes
\* calls configured(addr, v) exactly once on every driver, in list order, and
\* makes no other callback, and the host is in Configured(addr, v) after it;
\* a poll on any other event but Detached leaves the host in Configuring(addr,
\* v) and makes no callback.
C35_Configured ==
    [][state.tag = "Configuring" /\ op'.name = "poll" /\ op'.bev.tag # "Detached"
        => /\ ~panicked'
           /\ IF StageStep("Out", "WaitConfirm")
              THEN /\ state' = Configured(state.addr, state.config)
                   /\ Len(cbs') = NumDrivers
                   /\ \A i \in Drivers :
                         /\ cbs'[i].cb = "configured" /\ cbs'[i].drv = i
                         /\ cbs'[i].addr = state.addr /\ cbs'[i].config = state.config
              ELSE state' = state /\ cbs' = <<>>]_vars

\* SET_CONFIGURATION has completed and the last driver, too, was told
C35_Witness ==
    /\ Polled("TransComplete") /\ op.from = Configuring(1, 2)
    /\ state = Configured(1, 2)
    /\ Len(cbs) = NumDrivers /\ cbs[NumDrivers].cb = "configured"
    /\ cbs[NumDrivers].drv = NumDrivers

\* C36: the SOF interrupt is on only inside enumeration: in
\* Enumeration(WaitForDevice) and in every later phase the last
\* interrupt_on_sof call since the last reset_controller, if there was one,
\* was interrupt_on_sof(false) - on every path back to WaitForDevice, a
\* Detached in Delay0 included.
C36_SofOnlyInEnumeration ==
    state = Enumeration(WaitForDevice) \/ state.tag # "Enumeration" => ~bus.sof_irq

\* C37: with a bus that raises TransComplete only in answer to a stage the
\* host wrote, at most once per stage, and never for a stage written before
\* the last Detached or reset_controller, poll never gets TransComplete while
\* no transfer is in flight, in any phase: whenever an answer is owed a
\* transfer is in flight, and never is more than one answer owed.
C37_NoStrayTransComplete ==
    /\ bus.owed > 0 => IsSome(active_transfer) /\ bus.owed = 1
    /\ op.name = "poll" /\ op.bev.tag = "TransComplete" => op.was_active

\* a TransComplete came after a Stall for the same stage, and found the
\* transfer still in flight
C37_Witness ==
    /\ Polled("TransComplete") /\ op.was_active /\ stalled
    /\ op.from.tag = "Configured" /\ IsSome(op.pipe_id)

\* C38: on a buffer whose first byte, the descriptor length, is 0 or 1,
\* any_descriptor reports a parse error: it neither takes 254 or 255 bytes of
\* data by 8-bit wrap-around of length - 2 nor aborts the program.
C38_ShortLengthIsError ==
    op.name = "any_descriptor" /\ Len(op.input) >= 1 /\ op.input[1] < 2
        => ~ret.ok /\ ~ret.panic

\* C39: EndpointAddress::number returns the endpoint number held in the low
\* four bits of the endpoint address byte, for every endpoint number from 1 to
\* 15 and both directions (bit 7).
C39_EndpointNumber ==
    \A n \in 1..15, direction \in {"In", "Out"} :
        op.name = "EndpointAddress::number" /\ op.address = n + DirectionByte(direction)
            => ret = n

====
